---- MODULE Spec2Model ----
(***************************************************************************)
(* Supply-chain analytics core: weekly scoring (metrics.py), anomaly       *)
(* detection (model.py), root-cause attribution (root_cause.py) and load   *)
(* simulation (simulation.py), as state machines over one in-memory table. *)
(*                                                                         *)
(* Number representation.  Every value the code rounds to 2 decimals is an *)
(* integer count of hundredths (62.25 is 6225).  A value the code keeps    *)
(* unrounded (a mean, the error rate, an anomaly rate) is an exact         *)
(* rational <<num, den>> with den > 0.  Anomaly scores, which the code     *)
(* rounds to 6 decimals, are integer millionths.  Elasticities are tenths. *)
(* An Optional value is a sequence of length 0 (None) or 1.                *)
(***************************************************************************)
EXTENDS Integers, Sequences, FiniteSets, TLC

(* ------------------------------ bounds -------------------------------- *)

\* Weeks of the table are 1..MaxWeek; queries range over the same weeks.
MaxWeek == 3

\* A table holds at most MaxRecords rows, or one row for each week.
MaxRecords == 2

\* simulate_load_range is called with at most MaxIncrements percentages.
MaxIncrements == 2
MaxPoints == 4

\* The list stress_test builds holds at most MaxYielded percentages: the
\* memory the interpreter can give it.
MaxYielded == 4

(* --------------------------- program constants ------------------------ *)

\* metrics.py WEIGHTS, in tenths.
WEIGHTS == [picking |-> 4, packing |-> 3, dispatch |-> 3]

\* metrics.py BENCHMARKS; the timing cutoffs in minutes, the error_rate
\* cutoffs in tenths.
BENCHMARKS ==
  [pick_time      |-> [excellent |-> 10, good |-> 20, poor |-> 35],
   pack_time      |-> [excellent |-> 8,  good |-> 18, poor |-> 30],
   dispatch_delay |-> [excellent |-> 5,  good |-> 15, poor |-> 25],
   error_rate     |-> [excellent |-> 1,  good |-> 5,  poor |-> 15]]

\* The unit BENCHMARKS[name] is written in, as parts of one.
BenchmarkUnit(name) == IF name = "error_rate" THEN 10 ELSE 1

\* metrics.py ALERT_THRESHOLDS, in hundredths.
ALERT_THRESHOLDS ==
  [delivery_score |-> [warning |-> 6000, critical |-> 4000],
   error_rate     |-> [warning |-> 80,   critical |-> 150],
   picking_score  |-> [warning |-> 5500, critical |-> 3500],
   packing_score  |-> [warning |-> 5500, critical |-> 3500],
   dispatch_score |-> [warning |-> 5500, critical |-> 3500]]

\* The iteration order of the ALERT_THRESHOLDS dict (its declaration order).
AlertMetricOrder ==
  <<"delivery_score", "error_rate", "picking_score", "packing_score",
    "dispatch_score">>

(* ------------------------------ the table ----------------------------- *)

Weeks == 1..MaxWeek

\* The timing profiles rows are drawn from: the specification's example
\* row, a row at the "good" benchmarks and a slow row past the "poor"
\* benchmarks.
Profiles ==
  { [pick_time |-> 15, pack_time |-> 10, dispatch_delay |-> 8,  error_count |-> 1],
    [pick_time |-> 20, pack_time |-> 18, dispatch_delay |-> 15, error_count |-> 0],
    [pick_time |-> 36, pack_time |-> 31, dispatch_delay |-> 26, error_count |-> 3] }

Rows ==
  { [week |-> w, pick_time |-> p.pick_time, pack_time |-> p.pack_time,
     dispatch_delay |-> p.dispatch_delay, error_count |-> p.error_count] :
    w \in Weeks, p \in Profiles }

RECURSIVE SeqsUpTo(_, _)
\* All sequences over S of length at most n.
SeqsUpTo(S, n) ==
  IF n = 0 THEN { <<>> }
  ELSE LET shorter == SeqsUpTo(S, n - 1)
       IN  shorter \cup { Append(s, x) : s \in { t \in shorter : Len(t) = n - 1 }, x \in S }

\* A history with one row for every week, the weeks ascending or descending.
WeeklyTables ==
  { t \in [1..MaxWeek -> Rows] :
      \/ \A i \in 1..MaxWeek : t[i].week = i
      \/ \A i \in 1..MaxWeek : t[i].week = MaxWeek + 1 - i }

\* The tables read at start-up: up to MaxRecords records in file order, the
\* weeks non-decreasing, and the histories of one row a week in both orders.
Tables ==
  { t \in SeqsUpTo(Rows, MaxRecords) : \A i \in 1..(Len(t) - 1) : t[i].week <= t[i + 1].week }
    \cup WeeklyTables

(* ------------------------------- state -------------------------------- *)

VARIABLES
  df,         \* the in-memory table (main.py AppState.df): a sequence of rows
  tiesAway,   \* how round(x, 2) settles an exact decimal tie, see Round
  call,       \* the operation invoked last and its arguments
  result,     \* what that invocation did: raised an error or returned a value
  memo,       \* history: the first calculate_week_metrics outcome on this table
  remembered  \* history: one metric's value and level from the previous alert call

vars == <<df, tiesAway, call, result, memo, remembered>>

Raised(err, msg) == [status |-> "raised", error |-> err, message |-> msg]
Returned(v)      == [status |-> "returned", value |-> v]
None             == <<>>
Some(v)          == <<v>>

(* ----------------------------- arithmetic ----------------------------- *)

\* The element of a one-element set.  { e(x) : x \in {v} } is how a value
\* computed once and used many times (a local variable of the code) is
\* written below.
Only(S) == CHOOSE x \in S : TRUE

Abs(x) == IF x < 0 THEN -x ELSE x
Sign(x) == IF x < 0 THEN -1 ELSE 1

RECURSIVE SumSeq(_)
SumSeq(s) == IF s = <<>> THEN 0 ELSE Head(s) + SumSeq(Tail(s))

RECURSIVE SortedSeq(_)
\* sort_index(): the elements of a finite set of integers in ascending order.
SortedSeq(S) ==
  IF S = {} THEN <<>>
  ELSE LET least == CHOOSE x \in S : \A y \in S : x <= y
       IN  <<least>> \o SortedSeq(S \ {least})

\* df[mask]: the rows of s at the positions in I, in table order.
RowsAt(s, I) ==
  LET idx == SortedSeq(I)
  IN  [j \in 1..Len(idx) |-> s[idx[j]]]

Column(s, col) == [i \in 1..Len(s) |-> s[i][col]]

\* Python's round(): the integer nearest to num/den (den > 0).  When num/den
\* lies exactly midway, the binary double the code rounds is a hair above or
\* below the midpoint depending on the representation error of the operands,
\* and round() follows it; the direction is the environment's, fixed for a
\* behaviour in tiesAway, and symmetric in the sign as float arithmetic is.
Round(num, den) ==
  LET a == Abs(num)
      q == a \div den
      r == a % den
      m == IF 2 * r > den THEN q + 1
           ELSE IF 2 * r < den THEN q
           ELSE IF tiesAway THEN q + 1 ELSE q
  IN  Sign(num) * m

(* --------------------------- scoring engine --------------------------- *)

\* The least and greatest target - value, in minutes, the table below covers.
SigmoidGrid == [min |-> -100, max |-> 100, perMinute |-> 12]

\* round(100 / (1 + exp(-delta / 10)), 2) in hundredths, at every delta from
\* SigmoidGrid.min to SigmoidGrid.max in steps of 1/12 minute: every mean of
\* 1, 2, 3, 4, 6 or 12 integer timings falls on the grid.  The entries are
\* the values the Python expression evaluates to.
SigmoidTable ==
    <<
           0,     0,     0,     0,     0,     0,     0,     0,     0,     0,     0,     0,
           1,     1,     1,     1,     1,     1,     1,     1,     1,     1,     1,     1,
           1,     1,     1,     1,     1,     1,     1,     1,     1,     1,     1,     1,
           1,     1,     1,     1,     1,     1,     1,     1,     1,     1,     1,     1,
           1,     1,     1,     1,     1,     1,     1,     1,     1,     1,     1,     1,
           1,     1,     1,     1,     1,     1,     1,     1,     1,     1,     1,     1,
           1,     1,     1,     1,     1,     1,     1,     1,     1,     1,     1,     1,
           1,     1,     1,     1,     1,     1,     1,     1,     1,     1,     1,     1,
           1,     1,     1,     1,     1,     1,     1,     1,     1,     1,     1,     1,
           1,     1,     1,     1,     1,     1,     1,     1,     1,     1,     1,     1,
           1,     1,     1,     1,     1,     1,     1,     1,     1,     1,     1,     1,
           1,     1,     1,     1,     1,     1,     1,     1,     1,     1,     1,     1,
           2,     2,     2,     2,     2,     2,     2,     2,     2,     2,     2,     2,
           2,     2,     2,     2,     2,     2,     2,     2,     2,     2,     2,     2,
           2,     2,     2,     2,     2,     2,     2,     2,     2,     2,     2,     2,
           2,     2,     2,     2,     2,     2,     2,     2,     2,     2,     2,     2,
           2,     2,     2,     2,     2,     2,     2,     2,     2,     2,     2,     2,
           2,     3,     3,     3,     3,     3,     3,     3,     3,     3,     3,     3,
           3,     3,     3,     3,     3,     3,     3,     3,     3,     3,     3,     3,
           3,     3,     3,     3,     3,     3,     3,     3,     3,     3,     3,     3,
           3,     3,     3,     3,     3,     3,     4,     4,     4,     4,     4,     4,
           4,     4,     4,     4,     4,     4,     4,     4,     4,     4,     4,     4,
           4,     4,     4,     4,     4,     4,     4,     4,     4,     4,     4,     4,
           5,     5,     5,     5,     5,     5,     5,     5,     5,     5,     5,     5,
           5,     5,     5,     5,     5,     5,     5,     5,     5,     5,     5,     5,
           6,     6,     6,     6,     6,     6,     6,     6,     6,     6,     6,     6,
           6,     6,     6,     6,     6,     6,     6,     6,     7,     7,     7,     7,
           7,     7,     7,     7,     7,     7,     7,     7,     7,     7,     7,     7,
           7,     8,     8,     8,     8,     8,     8,     8,     8,     8,     8,     8,
           8,     8,     8,     8,     9,     9,     9,     9,     9,     9,     9,     9,
           9,     9,     9,     9,     9,     9,    10,    10,    10,    10,    10,    10,
          10,    10,    10,    10,    10,    10,    11,    11,    11,    11,    11,    11,
          11,    11,    11,    11,    12,    12,    12,    12,    12,    12,    12,    12,
          12,    12,    13,    13,    13,    13,    13,    13,    13,    13,    13,    13,
          14,    14,    14,    14,    14,    14,    14,    14,    15,    15,    15,    15,
          15,    15,    15,    15,    16,    16,    16,    16,    16,    16,    16,    16,
          17,    17,    17,    17,    17,    17,    17,    18,    18,    18,    18,    18,
          18,    18,    19,    19,    19,    19,    19,    19,    20,    20,    20,    20,
          20,    20,    21,    21,    21,    21,    21,    21,    22,    22,    22,    22,
          22,    23,    23,    23,    23,    23,    24,    24,    24,    24,    24,    25,
          25,    25,    25,    25,    26,    26,    26,    26,    26,    27,    27,    27,
          27,    28,    28,    28,    28,    28,    29,    29,    29,    29,    30,    30,
          30,    30,    31,    31,    31,    31,    32,    32,    32,    33,    33,    33,
          33,    34,    34,    34,    34,    35,    35,    35,    36,    36,    36,    37,
          37,    37,    37,    38,    38,    38,    39,    39,    39,    40,    40,    40,
          41,    41,    41,    42,    42,    42,    43,    43,    43,    44,    44,    45,
          45,    45,    46,    46,    46,    47,    47,    48,    48,    48,    49,    49,
          50,    50,    50,    51,    51,    52,    52,    53,    53,    54,    54,    54,
          55,    55,    56,    56,    57,    57,    58,    58,    59,    59,    60,    60,
          61,    61,    62,    62,    63,    63,    64,    64,    65,    65,    66,    66,
          67,    67,    68,    69,    69,    70,    70,    71,    72,    72,    73,    73,
          74,    75,    75,    76,    76,    77,    78,    78,    79,    80,    80,    81,
          82,    82,    83,    84,    84,    85,    86,    86,    87,    88,    89,    89,
          90,    91,    92,    92,    93,    94,    95,    95,    96,    97,    98,    99,
         100,   100,   101,   102,   103,   104,   105,   105,   106,   107,   108,   109,
         110,   111,   112,   113,   114,   114,   115,   116,   117,   118,   119,   120,
         121,   122,   123,   124,   125,   126,   127,   128,   130,   131,   132,   133,
         134,   135,   136,   137,   138,   139,   141,   142,   143,   144,   145,   147,
         148,   149,   150,   151,   153,   154,   155,   156,   158,   159,   160,   162,
         163,   164,   166,   167,   168,   170,   171,   173,   174,   175,   177,   178,
         180,   181,   183,   184,   186,   187,   189,   190,   192,   194,   195,   197,
         198,   200,   202,   203,   205,   207,   208,   210,   212,   214,   215,   217,
         219,   221,   222,   224,   226,   228,   230,   232,   234,   235,   237,   239,
         241,   243,   245,   247,   249,   251,   253,   255,   257,   260,   262,   264,
         266,   268,   270,   273,   275,   277,   279,   281,   284,   286,   288,   291,
         293,   296,   298,   300,   303,   305,   308,   310,   313,   315,   318,   320,
         323,   326,   328,   331,   334,   336,   339,   342,   344,   347,   350,   353,
         356,   359,   361,   364,   367,   370,   373,   376,   379,   382,   385,   389,
         392,   395,   398,   401,   404,   408,   411,   414,   418,   421,   424,   428,
         431,   435,   438,   442,   445,   449,   452,   456,   459,   463,   467,   471,
         474,   478,   482,   486,   490,   493,   497,   501,   505,   509,   513,   517,
         522,   526,   530,   534,   538,   543,   547,   551,   555,   560,   564,   569,
         573,   578,   582,   587,   592,   596,   601,   606,   610,   615,   620,   625,
         630,   635,   640,   645,   650,   655,   660,   665,   670,   675,   681,   686,
         691,   697,   702,   708,   713,   719,   724,   730,   736,   741,   747,   753,
         759,   764,   770,   776,   782,   788,   794,   801,   807,   813,   819,   825,
         832,   838,   845,   851,   858,   864,   871,   877,   884,   891,   898,   904,
         911,   918,   925,   932,   939,   946,   953,   961,   968,   975,   983,   990,
         998,  1005,  1013,  1020,  1028,  1036,  1043,  1051,  1059,  1067,  1075,  1083,
        1091,  1099,  1107,  1116,  1124,  1132,  1141,  1149,  1157,  1166,  1175,  1183,
        1192,  1201,  1210,  1219,  1227,  1236,  1246,  1255,  1264,  1273,  1282,  1292,
        1301,  1311,  1320,  1330,  1339,  1349,  1359,  1369,  1378,  1388,  1398,  1408,
        1419,  1429,  1439,  1449,  1460,  1470,  1480,  1491,  1502,  1512,  1523,  1534,
        1545,  1556,  1567,  1578,  1589,  1600,  1611,  1622,  1634,  1645,  1657,  1668,
        1680,  1691,  1703,  1715,  1727,  1739,  1751,  1763,  1775,  1787,  1800,  1812,
        1824,  1837,  1849,  1862,  1874,  1887,  1900,  1913,  1926,  1939,  1952,  1965,
        1978,  1991,  2005,  2018,  2032,  2045,  2059,  2072,  2086,  2100,  2114,  2128,
        2142,  2156,  2170,  2184,  2198,  2213,  2227,  2241,  2256,  2271,  2285,  2300,
        2315,  2330,  2345,  2360,  2375,  2390,  2405,  2420,  2435,  2451,  2466,  2482,
        2497,  2513,  2529,  2545,  2560,  2576,  2592,  2608,  2624,  2641,  2657,  2673,
        2689,  2706,  2722,  2739,  2755,  2772,  2789,  2806,  2822,  2839,  2856,  2873,
        2891,  2908,  2925,  2942,  2959,  2977,  2994,  3012,  3029,  3047,  3065,  3082,
        3100,  3118,  3136,  3154,  3172,  3190,  3208,  3226,  3245,  3263,  3281,  3300,
        3318,  3337,  3355,  3374,  3392,  3411,  3430,  3449,  3468,  3486,  3505,  3524,
        3543,  3563,  3582,  3601,  3620,  3639,  3659,  3678,  3697,  3717,  3736,  3756,
        3775,  3795,  3815,  3834,  3854,  3874,  3894,  3913,  3933,  3953,  3973,  3993,
        4013,  4033,  4053,  4073,  4093,  4114,  4134,  4154,  4174,  4195,  4215,  4235,
        4256,  4276,  4296,  4317,  4337,  4358,  4378,  4399,  4419,  4440,  4460,  4481,
        4502,  4522,  4543,  4564,  4584,  4605,  4626,  4646,  4667,  4688,  4709,  4729,
        4750,  4771,  4792,  4813,  4833,  4854,  4875,  4896,  4917,  4938,  4958,  4979,
        5000,  5021,  5042,  5062,  5083,  5104,  5125,  5146,  5167,  5187,  5208,  5229,
        5250,  5271,  5291,  5312,  5333,  5354,  5374,  5395,  5416,  5436,  5457,  5478,
        5498,  5519,  5540,  5560,  5581,  5601,  5622,  5642,  5663,  5683,  5704,  5724,
        5744,  5765,  5785,  5805,  5826,  5846,  5866,  5886,  5907,  5927,  5947,  5967,
        5987,  6007,  6027,  6047,  6067,  6087,  6106,  6126,  6146,  6166,  6185,  6205,
        6225,  6244,  6264,  6283,  6303,  6322,  6341,  6361,  6380,  6399,  6418,  6437,
        6457,  6476,  6495,  6514,  6532,  6551,  6570,  6589,  6608,  6626,  6645,  6663,
        6682,  6700,  6719,  6737,  6755,  6774,  6792,  6810,  6828,  6846,  6864,  6882,
        6900,  6918,  6935,  6953,  6971,  6988,  7006,  7023,  7041,  7058,  7075,  7092,
        7109,  7127,  7144,  7161,  7178,  7194,  7211,  7228,  7245,  7261,  7278,  7294,
        7311,  7327,  7343,  7359,  7376,  7392,  7408,  7424,  7440,  7455,  7471,  7487,
        7503,  7518,  7534,  7549,  7565,  7580,  7595,  7610,  7625,  7640,  7655,  7670,
        7685,  7700,  7715,  7729,  7744,  7759,  7773,  7787,  7802,  7816,  7830,  7844,
        7858,  7872,  7886,  7900,  7914,  7928,  7941,  7955,  7968,  7982,  7995,  8009,
        8022,  8035,  8048,  8061,  8074,  8087,  8100,  8113,  8126,  8138,  8151,  8163,
        8176,  8188,  8200,  8213,  8225,  8237,  8249,  8261,  8273,  8285,  8297,  8309,
        8320,  8332,  8343,  8355,  8366,  8378,  8389,  8400,  8411,  8422,  8433,  8444,
        8455,  8466,  8477,  8488,  8498,  8509,  8520,  8530,  8540,  8551,  8561,  8571,
        8581,  8592,  8602,  8612,  8622,  8631,  8641,  8651,  8661,  8670,  8680,  8689,
        8699,  8708,  8718,  8727,  8736,  8745,  8754,  8764,  8773,  8781,  8790,  8799,
        8808,  8817,  8825,  8834,  8843,  8851,  8859,  8868,  8876,  8884,  8893,  8901,
        8909,  8917,  8925,  8933,  8941,  8949,  8957,  8964,  8972,  8980,  8987,  8995,
        9002,  9010,  9017,  9025,  9032,  9039,  9047,  9054,  9061,  9068,  9075,  9082,
        9089,  9096,  9102,  9109,  9116,  9123,  9129,  9136,  9142,  9149,  9155,  9162,
        9168,  9175,  9181,  9187,  9193,  9199,  9206,  9212,  9218,  9224,  9230,  9236,
        9241,  9247,  9253,  9259,  9264,  9270,  9276,  9281,  9287,  9292,  9298,  9303,
        9309,  9314,  9319,  9325,  9330,  9335,  9340,  9345,  9350,  9355,  9360,  9365,
        9370,  9375,  9380,  9385,  9390,  9394,  9399,  9404,  9408,  9413,  9418,  9422,
        9427,  9431,  9436,  9440,  9445,  9449,  9453,  9457,  9462,  9466,  9470,  9474,
        9478,  9483,  9487,  9491,  9495,  9499,  9503,  9507,  9510,  9514,  9518,  9522,
        9526,  9529,  9533,  9537,  9541,  9544,  9548,  9551,  9555,  9558,  9562,  9565,
        9569,  9572,  9576,  9579,  9582,  9586,  9589,  9592,  9596,  9599,  9602,  9605,
        9608,  9611,  9615,  9618,  9621,  9624,  9627,  9630,  9633,  9636,  9639,  9641,
        9644,  9647,  9650,  9653,  9656,  9658,  9661,  9664,  9666,  9669,  9672,  9674,
        9677,  9680,  9682,  9685,  9687,  9690,  9692,  9695,  9697,  9700,  9702,  9704,
        9707,  9709,  9712,  9714,  9716,  9719,  9721,  9723,  9725,  9727,  9730,  9732,
        9734,  9736,  9738,  9740,  9743,  9745,  9747,  9749,  9751,  9753,  9755,  9757,
        9759,  9761,  9763,  9765,  9766,  9768,  9770,  9772,  9774,  9776,  9778,  9779,
        9781,  9783,  9785,  9786,  9788,  9790,  9792,  9793,  9795,  9797,  9798,  9800,
        9802,  9803,  9805,  9806,  9808,  9810,  9811,  9813,  9814,  9816,  9817,  9819,
        9820,  9822,  9823,  9825,  9826,  9827,  9829,  9830,  9832,  9833,  9834,  9836,
        9837,  9838,  9840,  9841,  9842,  9844,  9845,  9846,  9847,  9849,  9850,  9851,
        9852,  9853,  9855,  9856,  9857,  9858,  9859,  9861,  9862,  9863,  9864,  9865,
        9866,  9867,  9868,  9869,  9870,  9872,  9873,  9874,  9875,  9876,  9877,  9878,
        9879,  9880,  9881,  9882,  9883,  9884,  9885,  9886,  9886,  9887,  9888,  9889,
        9890,  9891,  9892,  9893,  9894,  9895,  9895,  9896,  9897,  9898,  9899,  9900,
        9900,  9901,  9902,  9903,  9904,  9905,  9905,  9906,  9907,  9908,  9908,  9909,
        9910,  9911,  9911,  9912,  9913,  9914,  9914,  9915,  9916,  9916,  9917,  9918,
        9918,  9919,  9920,  9920,  9921,  9922,  9922,  9923,  9924,  9924,  9925,  9925,
        9926,  9927,  9927,  9928,  9928,  9929,  9930,  9930,  9931,  9931,  9932,  9933,
        9933,  9934,  9934,  9935,  9935,  9936,  9936,  9937,  9937,  9938,  9938,  9939,
        9939,  9940,  9940,  9941,  9941,  9942,  9942,  9943,  9943,  9944,  9944,  9945,
        9945,  9946,  9946,  9946,  9947,  9947,  9948,  9948,  9949,  9949,  9950,  9950,
        9950,  9951,  9951,  9952,  9952,  9952,  9953,  9953,  9954,  9954,  9954,  9955,
        9955,  9955,  9956,  9956,  9957,  9957,  9957,  9958,  9958,  9958,  9959,  9959,
        9959,  9960,  9960,  9960,  9961,  9961,  9961,  9962,  9962,  9962,  9963,  9963,
        9963,  9963,  9964,  9964,  9964,  9965,  9965,  9965,  9966,  9966,  9966,  9966,
        9967,  9967,  9967,  9967,  9968,  9968,  9968,  9969,  9969,  9969,  9969,  9970,
        9970,  9970,  9970,  9971,  9971,  9971,  9971,  9972,  9972,  9972,  9972,  9972,
        9973,  9973,  9973,  9973,  9974,  9974,  9974,  9974,  9974,  9975,  9975,  9975,
        9975,  9975,  9976,  9976,  9976,  9976,  9976,  9977,  9977,  9977,  9977,  9977,
        9978,  9978,  9978,  9978,  9978,  9979,  9979,  9979,  9979,  9979,  9979,  9980,
        9980,  9980,  9980,  9980,  9980,  9981,  9981,  9981,  9981,  9981,  9981,  9982,
        9982,  9982,  9982,  9982,  9982,  9982,  9983,  9983,  9983,  9983,  9983,  9983,
        9983,  9984,  9984,  9984,  9984,  9984,  9984,  9984,  9984,  9985,  9985,  9985,
        9985,  9985,  9985,  9985,  9985,  9986,  9986,  9986,  9986,  9986,  9986,  9986,
        9986,  9987,  9987,  9987,  9987,  9987,  9987,  9987,  9987,  9987,  9987,  9988,
        9988,  9988,  9988,  9988,  9988,  9988,  9988,  9988,  9988,  9989,  9989,  9989,
        9989,  9989,  9989,  9989,  9989,  9989,  9989,  9990,  9990,  9990,  9990,  9990,
        9990,  9990,  9990,  9990,  9990,  9990,  9990,  9991,  9991,  9991,  9991,  9991,
        9991,  9991,  9991,  9991,  9991,  9991,  9991,  9991,  9991,  9992,  9992,  9992,
        9992,  9992,  9992,  9992,  9992,  9992,  9992,  9992,  9992,  9992,  9992,  9992,
        9993,  9993,  9993,  9993,  9993,  9993,  9993,  9993,  9993,  9993,  9993,  9993,
        9993,  9993,  9993,  9993,  9993,  9994,  9994,  9994,  9994,  9994,  9994,  9994,
        9994,  9994,  9994,  9994,  9994,  9994,  9994,  9994,  9994,  9994,  9994,  9994,
        9994,  9995,  9995,  9995,  9995,  9995,  9995,  9995,  9995,  9995,  9995,  9995,
        9995,  9995,  9995,  9995,  9995,  9995,  9995,  9995,  9995,  9995,  9995,  9995,
        9995,  9996,  9996,  9996,  9996,  9996,  9996,  9996,  9996,  9996,  9996,  9996,
        9996,  9996,  9996,  9996,  9996,  9996,  9996,  9996,  9996,  9996,  9996,  9996,
        9996,  9996,  9996,  9996,  9996,  9996,  9996,  9997,  9997,  9997,  9997,  9997,
        9997,  9997,  9997,  9997,  9997,  9997,  9997,  9997,  9997,  9997,  9997,  9997,
        9997,  9997,  9997,  9997,  9997,  9997,  9997,  9997,  9997,  9997,  9997,  9997,
        9997,  9997,  9997,  9997,  9997,  9997,  9997,  9997,  9997,  9997,  9997,  9997,
        9998,  9998,  9998,  9998,  9998,  9998,  9998,  9998,  9998,  9998,  9998,  9998,
        9998,  9998,  9998,  9998,  9998,  9998,  9998,  9998,  9998,  9998,  9998,  9998,
        9998,  9998,  9998,  9998,  9998,  9998,  9998,  9998,  9998,  9998,  9998,  9998,
        9998,  9998,  9998,  9998,  9998,  9998,  9998,  9998,  9998,  9998,  9998,  9998,
        9998,  9998,  9998,  9998,  9998,  9998,  9998,  9998,  9998,  9998,  9998,  9998,
        9998,  9999,  9999,  9999,  9999,  9999,  9999,  9999,  9999,  9999,  9999,  9999,
        9999,  9999,  9999,  9999,  9999,  9999,  9999,  9999,  9999,  9999,  9999,  9999,
        9999,  9999,  9999,  9999,  9999,  9999,  9999,  9999,  9999,  9999,  9999,  9999,
        9999,  9999,  9999,  9999,  9999,  9999,  9999,  9999,  9999,  9999,  9999,  9999,
        9999,  9999,  9999,  9999,  9999,  9999,  9999,  9999,  9999,  9999,  9999,  9999,
        9999,  9999,  9999,  9999,  9999,  9999,  9999,  9999,  9999,  9999,  9999,  9999,
        9999,  9999,  9999,  9999,  9999,  9999,  9999,  9999,  9999,  9999,  9999,  9999,
        9999,  9999,  9999,  9999,  9999,  9999,  9999,  9999,  9999,  9999,  9999,  9999,
        9999,  9999,  9999,  9999,  9999,  9999,  9999,  9999,  9999,  9999,  9999,  9999,
        9999,  9999,  9999,  9999,  9999,  9999,  9999,  9999,  9999,  9999,  9999,  9999,
        9999,  9999,  9999,  9999,  9999,  9999,  9999,  9999,  9999,  9999,  9999,  9999,
        9999, 10000, 10000, 10000, 10000, 10000, 10000, 10000, 10000, 10000, 10000, 10000,
       10000
    >>

\* The sigmoid with delta taken as value - target, so that it rises with the
\* value.
_sigmoid_score_rising(sum, n, target) ==
  LET delta12 == (SigmoidGrid.perMinute * sum) \div n - SigmoidGrid.perMinute * target
      low == SigmoidGrid.perMinute * SigmoidGrid.min
      high == SigmoidGrid.perMinute * SigmoidGrid.max
  IN  IF delta12 < low THEN 0
      ELSE IF delta12 > high THEN 10000
      ELSE SigmoidTable[delta12 - low + 1]

\* metrics.py _sigmoid_score(value, target, scale = 10), the value being the
\* mean sum/n of a week's column.  Below the grid the quotient is under
\* 0.005 and rounds to 0.0 (np.exp overflows to inf far below it, and
\* 100 / inf is 0.0); above the grid it is over 99.995 and rounds to 100.0.
_sigmoid_score(sum, n, target) ==
  LET delta12 == SigmoidGrid.perMinute * target - (SigmoidGrid.perMinute * sum) \div n
      low == SigmoidGrid.perMinute * SigmoidGrid.min
      high == SigmoidGrid.perMinute * SigmoidGrid.max
  IN  IF delta12 < low THEN 0
      ELSE IF delta12 > high THEN 10000
      ELSE SigmoidTable[delta12 - low + 1]

\* The weighted sum with the weights of picking and packing exchanged.
WeightedSumSwapped(picking, packing, dispatch) ==
  WEIGHTS.packing * picking + WEIGHTS.picking * packing + WEIGHTS.dispatch * dispatch

\* The weighted sum of _compute_scores in thousandths of a point (the weights
\* are tenths, the scores hundredths).
WeightedSum(picking, packing, dispatch) ==
  WEIGHTS.picking * picking + WEIGHTS.packing * packing + WEIGHTS.dispatch * dispatch

_compute_scores(avg_pick, avg_pack, avg_dispatch) ==
  Only({ <<picking_score, packing_score, dispatch_score,
           Round(WeightedSum(picking_score, packing_score, dispatch_score), 10)>> :
         picking_score  \in { _sigmoid_score(avg_pick[1], avg_pick[2],
                                             BENCHMARKS.pick_time.good) },
         packing_score  \in { _sigmoid_score(avg_pack[1], avg_pack[2],
                                             BENCHMARKS.pack_time.good) },
         dispatch_score \in { _sigmoid_score(avg_dispatch[1], avg_dispatch[2],
                                             BENCHMARKS.dispatch_delay.good) } })

(* --------------------------- alert generator -------------------------- *)

\* The level with every metric compared as a score is, error_rate too.
AlertLevelOnePolarity(metric, value) ==
  LET critical == ALERT_THRESHOLDS[metric].critical
      warning  == ALERT_THRESHOLDS[metric].warning
      v100     == 100 * value[1]
  IN  IF v100 <= critical * value[2] THEN Some("critical")
      ELSE IF v100 <= warning * value[2] THEN Some("warning") ELSE None

\* The level _generate_alerts gives one metric: <<>> for no alert.  value is
\* a rational, the thresholds are hundredths.
AlertLevel(metric, value) ==
  LET is_low_good == metric # "error_rate"
      critical    == ALERT_THRESHOLDS[metric].critical
      warning     == ALERT_THRESHOLDS[metric].warning
      v100        == 100 * value[1]
  IN  IF is_low_good
      THEN IF v100 <= critical * value[2] THEN Some("critical")
           ELSE IF v100 <= warning * value[2] THEN Some("warning") ELSE None
      ELSE IF v100 >= critical * value[2] THEN Some("critical")
           ELSE IF v100 >= warning * value[2] THEN Some("warning") ELSE None

\* The Alert carrying the warning threshold whatever its level.
MakeAlertWarningThreshold(metric, level, value) ==
  LET threshold == ALERT_THRESHOLDS[metric].warning
  IN  [metric    |-> metric,
       level     |-> level,
       value     |-> Round(100 * value[1], value[2]),
       threshold |-> threshold,
       message   |-> [title     |-> metric,
                      level     |-> level,
                      value     |-> Round(100 * value[1], value[2]),
                      side      |-> IF metric # "error_rate" THEN "below" ELSE "above",
                      threshold |-> threshold]]

\* The Alert appended for a metric whose level is not None.  The message is
\* kept as the fields its template interpolates.
MakeAlert(metric, level, value) ==
  LET threshold == IF level = "critical" THEN ALERT_THRESHOLDS[metric].critical
                   ELSE ALERT_THRESHOLDS[metric].warning
  IN  [metric    |-> metric,
       level     |-> level,
       value     |-> Round(100 * value[1], value[2]),
       threshold |-> threshold,
       message   |-> [title     |-> metric,
                      level     |-> level,
                      value     |-> Round(100 * value[1], value[2]),
                      side      |-> IF metric # "error_rate" THEN "below" ELSE "above",
                      threshold |-> threshold]]

RECURSIVE AlertsFrom(_, _)
\* The loop of _generate_alerts from position i of the declaration order.
\* metrics is a dict: a function whose domain holds the metrics present.
AlertsFrom(metrics, i) ==
  IF i > Len(AlertMetricOrder) THEN <<>>
  ELSE LET metric == AlertMetricOrder[i]
           rest   == AlertsFrom(metrics, i + 1)
       IN  IF metric \notin DOMAIN metrics THEN rest
           ELSE LET level == AlertLevel(metric, metrics[metric])
                IN  IF level = None THEN rest
                    ELSE <<MakeAlert(metric, level[1], metrics[metric])>> \o rest

_generate_alerts(metrics) == AlertsFrom(metrics, 1)

(* ---------------------------- benchmark rater ------------------------- *)

\* metrics.py _benchmark_metric(name, value); value is a rational.  Every
\* benchmarked metric is in the lower_is_better tuple.
_benchmark_metric(name, value) ==
  LET thresholds      == BENCHMARKS[name]
      unit            == BenchmarkUnit(name)
      lower_is_better == name \in {"pick_time", "pack_time", "dispatch_delay", "error_rate"}
      v               == unit * value[1]
      AtMost(cut)     == v <= cut * value[2]
      AtLeast(cut)    == v >= cut * value[2]
      tier ==
        IF lower_is_better
        THEN IF AtMost(thresholds.excellent) THEN <<"excellent", 9000>>
             ELSE IF AtMost(thresholds.good) THEN <<"good", 7000>>
             ELSE IF AtMost(thresholds.poor) THEN <<"average", 4000>>
             ELSE <<"poor", 1500>>
        ELSE IF AtLeast(thresholds.excellent) THEN <<"excellent", 9000>>
             ELSE IF AtLeast(thresholds.good) THEN <<"good", 7000>>
             ELSE IF AtLeast(thresholds.poor) THEN <<"average", 4000>>
             ELSE <<"poor", 1500>>
  IN  [metric |-> name, value |-> Round(100 * value[1], value[2]),
       rating |-> tier[1], percentile_estimate |-> tier[2]]

(* ------------------------------ forecaster ---------------------------- *)

RECURSIVE RoundDecimals(_, _, _)
\* round(num/den, digits) as an integer count of 10^-digits, for num >= 0,
\* by long division so that no intermediate exceeds 10 * den.
RoundDecimals(num, den, digits) ==
  IF digits = 0 THEN Round(num, den)
  ELSE (num \div den) * (10 ^ digits) + RoundDecimals(10 * (num % den), den, digits - 1)

\* The forecaster asking for more than 3 points: len(series) <= 3.
_forecast_metric_four(series, metric_name) ==
  IF Len(series) <= 3 THEN None
  ELSE
    LET k   == Len(series)
        Y   == Only({ [i \in 1..k |-> (12 * v[i][1]) \div v[i][2]] : v \in {series} })
        X   == [i \in 1..k |-> 2 * (i - 1) - (k - 1)]
        SX2 == SumSeq([i \in 1..k |-> X[i] * X[i]])
        A   == SumSeq([i \in 1..k |-> X[i] * Y[i]])
        SY  == SumSeq(Y)
        V   == k * SumSeq([i \in 1..k |-> Y[i] * Y[i]]) - SY * SY
        r2n == IF V = 0 THEN 0 ELSE k * A * A
        r2d == IF V = 0 THEN 1 ELSE SX2 * V
        trend == IF Abs(A) <= 3 * SX2 THEN "stable"
                 ELSE IF A < 0 THEN "improving" ELSE "degrading"
        confidence == IF 10 * r2n > 7 * r2d THEN "high"
                      ELSE IF 10 * r2n > 4 * r2d THEN "medium" ELSE "low"
    IN  Some([metric          |-> metric_name,
              next_week_value |-> Round(100 * (SY * SX2 + A * k * (k + 1)), 12 * k * SX2),
              trend           |-> trend,
              slope           |-> Round(10000 * A, 6 * SX2),
              r_squared       |-> RoundDecimals(r2n, r2d, 4),
              confidence      |-> confidence])

\* metrics.py _forecast_metric(series, metric_name): series is the sequence
\* of weekly means <<sum, n>>.  scipy.stats.linregress against x = 0..k-1 is
\* computed exactly, on the means in twelfths Y and the centred abscissae
\* doubled X = 2x - (k-1):
\*   slope = A / (6 SX2), r^2 = k A^2 / (SX2 V), and r = 0 when V = 0,
\*   intercept + slope k = (SY SX2 + A k (k+1)) / (12 k SX2).
_forecast_metric(series, metric_name) ==
  IF Len(series) < 3 THEN None
  ELSE
    LET k   == Len(series)
        Y   == Only({ [i \in 1..k |-> (12 * v[i][1]) \div v[i][2]] : v \in {series} })
        X   == [i \in 1..k |-> 2 * (i - 1) - (k - 1)]
        SX2 == SumSeq([i \in 1..k |-> X[i] * X[i]])
        A   == SumSeq([i \in 1..k |-> X[i] * Y[i]])
        SY  == SumSeq(Y)
        V   == k * SumSeq([i \in 1..k |-> Y[i] * Y[i]]) - SY * SY
        r2n == IF V = 0 THEN 0 ELSE k * A * A
        r2d == IF V = 0 THEN 1 ELSE SX2 * V
        trend == IF Abs(A) <= 3 * SX2 THEN "stable"
                 ELSE IF A < 0 THEN "improving" ELSE "degrading"
        confidence == IF 10 * r2n > 7 * r2d THEN "high"
                      ELSE IF 10 * r2n > 4 * r2d THEN "medium" ELSE "low"
    IN  Some([metric          |-> metric_name,
              next_week_value |-> Round(100 * (SY * SX2 + A * k * (k + 1)), 12 * k * SX2),
              trend           |-> trend,
              slope           |-> Round(10000 * A, 6 * SX2),
              r_squared       |-> RoundDecimals(r2n, r2d, 4),
              confidence      |-> confidence])

(* ----------------------- calculate_week_metrics ----------------------- *)

\* Series.mean() of a column over rows, kept as the rational <<sum, count>>.
Mean(rows, col) == <<SumSeq(Column(rows, col)), Len(rows)>>

\* The weekly means of the whole table, the weeks after the requested one
\* included.
WeeklyMeansUnfiltered(table, week, col) ==
  LET history == table
      weeks   == SortedSeq({ history[i].week : i \in 1..Len(history) })
  IN  [j \in 1..Len(weeks) |->
         Mean(RowsAt(history, { i \in 1..Len(history) : history[i].week = weeks[j] }), col)]

\* df[df["week"] <= week].groupby("week")[col].mean().sort_index()
WeeklyMeans(table, week, col) ==
  LET history == RowsAt(table, { i \in 1..Len(table) : table[i].week <= week })
      weeks   == SortedSeq({ history[i].week : i \in 1..Len(history) })
  IN  [j \in 1..Len(weeks) |->
         Mean(RowsAt(history, { i \in 1..Len(history) : history[i].week = weeks[j] }), col)]

RECURSIVE ForecastsFrom(_, _, _, _)
\* The comprehension over the three forecast columns, dropping None.
ForecastsFrom(table, week, cols, i) ==
  IF i > Len(cols) THEN <<>>
  ELSE _forecast_metric(WeeklyMeans(table, week, cols[i]), cols[i])
         \o ForecastsFrom(table, week, cols, i + 1)

\* calculate_week_metrics handing _generate_alerts the error rate it reports,
\* rounded to 2 decimals.
calculate_week_metrics_rounded_alerts(week, table) ==
  Only({
    IF Len(df_week) = 0
    THEN Raised("ValueError", <<"No data found for week", week>>)
    ELSE
      LET avg_pick     == Mean(df_week, "pick_time")
          avg_pack     == Mean(df_week, "pack_time")
          avg_dispatch == Mean(df_week, "dispatch_delay")
          error_rate   == <<SumSeq(Column(df_week, "error_count")), Len(df_week)>>
      IN  Only({
            LET alerts == _generate_alerts(
                            [delivery_score |-> <<scores[4], 100>>,
                             picking_score  |-> <<scores[1], 100>>,
                             packing_score  |-> <<scores[2], 100>>,
                             dispatch_score |-> <<scores[3], 100>>,
                             error_rate     |-> <<Round(100 * error_rate[1], error_rate[2]),
                                                  100>>])
                benchmarks == << _benchmark_metric("pick_time", avg_pick),
                                 _benchmark_metric("pack_time", avg_pack),
                                 _benchmark_metric("dispatch_delay", avg_dispatch),
                                 _benchmark_metric("error_rate", error_rate) >>
                forecasts == ForecastsFrom(table, week,
                                           <<"pick_time", "pack_time", "dispatch_delay">>, 1)
            IN  Returned([week           |-> week,
                          picking_score  |-> scores[1],
                          packing_score  |-> scores[2],
                          dispatch_score |-> scores[3],
                          delivery_score |-> scores[4],
                          error_rate     |-> Round(100 * error_rate[1], error_rate[2]),
                          sample_size    |-> Len(df_week),
                          alerts         |-> alerts,
                          benchmarks     |-> benchmarks,
                          forecasts      |-> forecasts]) :
            scores \in { _compute_scores(avg_pick, avg_pack, avg_dispatch) } }) :
    df_week \in { RowsAt(table, { i \in 1..Len(table) : table[i].week = week }) } })

\* metrics.py calculate_week_metrics(week, df): the outcome, a raised
\* ValueError or the returned WeekMetrics.
calculate_week_metrics(week, table) ==
  Only({
    IF Len(df_week) = 0
    THEN Raised("ValueError", <<"No data found for week", week>>)
    ELSE
      LET avg_pick     == Mean(df_week, "pick_time")
          avg_pack     == Mean(df_week, "pack_time")
          avg_dispatch == Mean(df_week, "dispatch_delay")
          error_rate   == <<SumSeq(Column(df_week, "error_count")), Len(df_week)>>
      IN  Only({
            LET alerts == _generate_alerts(
                            [delivery_score |-> <<scores[4], 100>>,
                             picking_score  |-> <<scores[1], 100>>,
                             packing_score  |-> <<scores[2], 100>>,
                             dispatch_score |-> <<scores[3], 100>>,
                             error_rate     |-> error_rate])
                benchmarks == << _benchmark_metric("pick_time", avg_pick),
                                 _benchmark_metric("pack_time", avg_pack),
                                 _benchmark_metric("dispatch_delay", avg_dispatch),
                                 _benchmark_metric("error_rate", error_rate) >>
                forecasts == ForecastsFrom(table, week,
                                           <<"pick_time", "pack_time", "dispatch_delay">>, 1)
            IN  Returned([week           |-> week,
                          picking_score  |-> scores[1],
                          packing_score  |-> scores[2],
                          dispatch_score |-> scores[3],
                          delivery_score |-> scores[4],
                          error_rate     |-> Round(100 * error_rate[1], error_rate[2]),
                          sample_size    |-> Len(df_week),
                          alerts         |-> alerts,
                          benchmarks     |-> benchmarks,
                          forecasts      |-> forecasts]) :
            scores \in { _compute_scores(avg_pick, avg_pack, avg_dispatch) } }) :
    df_week \in { RowsAt(table, { i \in 1..Len(table) : table[i].week = week }) } })

(* --------------------------- anomaly detector ------------------------- *)

\* model.py FEATURES.
FEATURES == <<"pick_time", "pack_time", "dispatch_delay", "error_count">>

\* The decision_function values the fitted IsolationForest may give a row,
\* in units of 10^-7: critical, one that rounds to -0.15 (and is not a whole
\* number of millionths), -0.05, and an inlier.  The forest is a library's:
\* its decision function is taken as any function from a row's feature
\* values to these.
DecisionValues == { -2000000, -1500004, -500000, 500000 }

\* df[available]: the feature values of a row.
FeatureVector(row) ==
  <<row.pick_time, row.pack_time, row.dispatch_delay, row.error_count>>

\* IsolationForest.predict: -1 (outlier) where decision_function < 0, else 1.
Predict(decision) == IF decision < 0 THEN -1 ELSE 1

\* The severity with the thresholds themselves on the severe side.
_severity_inclusive(score) ==
  IF score <= -150000 THEN "critical"
  ELSE IF score <= -50000 THEN "high"
  ELSE "moderate"

\* model.py _severity(score), the score in millionths.
_severity(score) ==
  IF score < -150000 THEN "critical"
  ELSE IF score < -50000 THEN "high"
  ELSE "moderate"

\* model.py _find_triggered_features(row).
_find_triggered_features(row) ==
  (IF row.pick_time > BENCHMARKS.pick_time.poor THEN <<"pick_time">> ELSE <<>>)
  \o (IF row.pack_time > BENCHMARKS.pack_time.poor THEN <<"pack_time">> ELSE <<>>)
  \o (IF row.dispatch_delay > BENCHMARKS.dispatch_delay.poor
      THEN <<"dispatch_delay">> ELSE <<>>)
  \o (IF row.error_count >= 3 THEN <<"error_count">> ELSE <<>>)

\* model.py _explain(triggered, severity), as the template and what it
\* interpolates.
_explain(triggered, severity) ==
  IF triggered = <<>>
  THEN [template |-> "Unusual multivariate pattern detected", severity |-> severity,
        labels |-> <<>>]
  ELSE [template |-> "anomaly driven by", severity |-> severity, labels |-> triggered]

\* The Anomaly built for the row at 0-based table position idx.
MakeAnomaly(row, idx, decision) ==
  LET triggered == _find_triggered_features(row)
      score     == Round(decision, 10)
      severity  == _severity(score)
  IN  [week               |-> row.week,
       row_index          |-> idx,
       anomaly_score      |-> score,
       severity           |-> severity,
       triggered_features |-> triggered,
       values             |-> [f \in { FEATURES[i] : i \in 1..Len(FEATURES) } |-> 100 * row[f]],
       explanation        |-> _explain(triggered, severity)]

\* The position list.sort(key = lambda a: a[key]) gives element i of s: the
\* sort is ascending and stable, so i follows the elements of smaller key
\* and those of equal key that precede it.
SortedPosition(s, key, i) ==
  1 + Cardinality({ j \in 1..Len(s) :
                      \/ s[j][key] < s[i][key]
                      \/ s[j][key] = s[i][key] /\ j < i })

\* The sort called with reverse = True: descending, and stable.
SortByKeyReversed(s, key) ==
  Only({ [p \in 1..Len(v) |->
            v[CHOOSE i \in 1..Len(v) :
                1 + Cardinality({ j \in 1..Len(v) :
                                    \/ v[j][key] > v[i][key]
                                    \/ v[j][key] = v[i][key] /\ j < i }) = p]] :
         v \in {s} })

\* list.sort(key = lambda a: a[key]).
SortByKey(s, key) ==
  Only({ [p \in 1..Len(v) |-> v[CHOOSE i \in 1..Len(v) : SortedPosition(v, key, i) = p]] :
         v \in {s} })

RECURSIVE Flatten(_)
Flatten(ss) == IF ss = <<>> THEN <<>> ELSE Head(ss) \o Flatten(Tail(ss))

RECURSIVE GCD(_, _)
GCD(a, b) == IF b = 0 THEN a ELSE GCD(b, a % b)

\* The float a / b (b > 0), as the rational in lowest terms.
Quotient(a, b) == <<a \div GCD(a, b), b \div GCD(a, b)>>

\* The features max(set(all_triggers), key = all_triggers.count) may return:
\* those of greatest count; which of several the iteration order of a set
\* of strings decides.
MostCommonTriggers(all_triggers) ==
  LET names == { all_triggers[i] : i \in 1..Len(all_triggers) }
      N(f)  == Cardinality({ i \in 1..Len(all_triggers) : all_triggers[i] = f })
  IN  IF all_triggers = <<>> THEN { "none" }
      ELSE { f \in names : \A g \in names : N(g) <= N(f) }

\* The rows detect_anomalies works on: the table, or its rows of week
\* week_filter[1], as their 1-based table positions in order.
ScopedIndex(table, week_filter) ==
  SortedSeq({ i \in 1..Len(table) : week_filter = None \/ table[i].week = week_filter[1] })

\* The feature vectors the forest is fitted on.
ScopedFeatures(table, week_filter) ==
  { FeatureVector(table[i]) : i \in { j \in 1..Len(table) :
                                        week_filter = None \/ table[j].week = week_filter[1] } }

\* The loop over anomaly_rows and the sort that follows it: decision is the
\* fitted model's decision_function, a function of the feature vector; a
\* row's index label is its 0-based position in the table.
Anomalies(table, week_filter, decision) ==
  LET scoped       == ScopedIndex(table, week_filter)
      score(j)     == decision[FeatureVector(table[scoped[j]])]
      anomaly_rows == SortedSeq({ j \in 1..Len(scoped) : Predict(score(j)) = -1 })
      unsorted     == [a \in 1..Len(anomaly_rows) |->
                         MakeAnomaly(table[scoped[anomaly_rows[a]]],
                                     scoped[anomaly_rows[a]] - 1,
                                     score(anomaly_rows[a]))]
  IN  SortByKey(unsorted, "anomaly_score")

\* all_triggers of detect_anomalies.
AllTriggers(anomalies) ==
  Flatten([a \in 1..Len(anomalies) |-> anomalies[a].triggered_features])

\* model.py detect_anomalies(df, contamination, week_filter); most_common is
\* the choice among MostCommonTriggers.  StandardScaler.fit_transform refuses
\* a matrix of no rows with a ValueError.
detect_anomalies(table, week_filter, decision, most_common) ==
  LET n == Len(ScopedIndex(table, week_filter))
  IN  IF n = 0
      THEN Raised("ValueError", <<"Found array with 0 sample(s)", "StandardScaler">>)
      ELSE
        Only({
          LET severity_breakdown ==
                [level \in {"critical", "high", "moderate"} |->
                   Cardinality({ a \in 1..Len(anomalies) : anomalies[a].severity = level })]
          IN  Returned([total_records       |-> n,
                        anomaly_count       |-> Len(anomalies),
                        anomaly_rate        |-> IF n > 0 THEN Quotient(Len(anomalies), n)
                                                ELSE <<0, 1>>,
                        severity_breakdown  |-> severity_breakdown,
                        most_common_trigger |-> most_common,
                        anomalies           |-> anomalies]) :
          anomalies \in { Anomalies(table, week_filter, decision) } })

(* -------------------------- root-cause analyzer ----------------------- *)

\* The ImpactFactor with the change taken as previous - current.
MakeImpactFactorFlipped(metric, key, curr_val, prev_val) ==
  LET change == prev_val - curr_val
  IN  [metric          |-> metric,
       previous        |-> prev_val,
       current         |-> curr_val,
       change          |-> Round(change, 1),
       weight          |-> WEIGHTS[key],
       weighted_impact |-> Round(WEIGHTS[key] * change, 10),
       direction       |-> IF change > 0 THEN "improving"
                           ELSE IF change < 0 THEN "degrading" ELSE "stable"]

\* One ImpactFactor of root_cause_analysis: the scores are hundredths, the
\* weight tenths.
MakeImpactFactor(metric, key, curr_val, prev_val) ==
  LET change == curr_val - prev_val
  IN  [metric          |-> metric,
       previous        |-> prev_val,
       current         |-> curr_val,
       change          |-> Round(change, 1),
       weight          |-> WEIGHTS[key],
       weighted_impact |-> Round(WEIGHTS[key] * change, 10),
       direction       |-> IF change > 0 THEN "improving"
                           ELSE IF change < 0 THEN "degrading" ELSE "stable"]

\* The verdict with the improvement test strict: drop < 0.
_generate_verdict_strict(drop, drivers, error_rate) ==
  IF drop < 0
  THEN [text |-> "Performance improved week-over-week. No corrective action required."]
  ELSE
    LET worst == drivers[1]
    IN  [text         |-> "Delivery score dropped",
         severity     |-> IF drop > 1500 THEN "critically"
                          ELSE IF drop > 800 THEN "significantly" ELSE "moderately",
         drop         |-> drop,
         metric_label |-> worst.metric,
         impact       |-> worst.weighted_impact,
         error_note   |-> IF error_rate > 80 THEN Some(error_rate) ELSE None]

\* root_cause.py _generate_verdict(drop, drivers, error_rate), as the
\* sentence chosen and what it interpolates; error_rate is the rounded
\* WeekMetrics field, in hundredths.
_generate_verdict(drop, drivers, error_rate) ==
  IF drop <= 0
  THEN [text |-> "Performance improved week-over-week. No corrective action required."]
  ELSE
    LET worst == drivers[1]
    IN  [text         |-> "Delivery score dropped",
         severity     |-> IF drop > 1500 THEN "critically"
                          ELSE IF drop > 800 THEN "significantly" ELSE "moderately",
         drop         |-> drop,
         metric_label |-> worst.metric,
         impact       |-> worst.weighted_impact,
         error_note   |-> IF error_rate > 80 THEN Some(error_rate) ELSE None]

\* root_cause.py root_cause_analysis(current_week, previous_week, df).
root_cause_analysis(current_week, previous_week, table) ==
  Only({
    IF current.status = "raised" THEN current
    ELSE Only({
      IF previous.status = "raised" THEN previous
      ELSE
        LET c == current.value
            p == previous.value
            unsorted ==
              << MakeImpactFactor("picking_score", "picking", c.picking_score, p.picking_score),
                 MakeImpactFactor("packing_score", "packing", c.packing_score, p.packing_score),
                 MakeImpactFactor("dispatch_score", "dispatch", c.dispatch_score,
                                  p.dispatch_score) >>
            total_drop == Round(p.delivery_score - c.delivery_score, 1)
        IN  Only({
              Returned([kpi            |-> "Delivery Timeliness",
                        current_week   |-> current_week,
                        previous_week  |-> previous_week,
                        previous_score |-> p.delivery_score,
                        current_score  |-> c.delivery_score,
                        total_drop     |-> total_drop,
                        main_driver    |-> drivers[1].metric,
                        drivers        |-> drivers,
                        verdict        |-> _generate_verdict(total_drop, drivers,
                                                             c.error_rate)]) :
              drivers \in { SortByKey(unsorted, "weighted_impact") } }) :
      previous \in { calculate_week_metrics(previous_week, table) } }) :
    current \in { calculate_week_metrics(current_week, table) } })

(* ----------------------------- load simulator ------------------------- *)

\* The percentages (in hundredths of a percent: 10000 is +100%) and the
\* elasticities (in tenths) the simulator is called with; 10 and 12 are
\* simulate_scenario's defaults.
PctValues == { 0, 10000 }
ElasticityValues == { 0, 10, 12 }

\* increase_factor ** elasticity as a rational <<num, den>>, increase_factor
\* being 1 + pct / 100 (10000 + pct ten-thousandths).  For the elasticity 1.2 the power is irrational: the
\* rational given is close enough that round(base / power, 2) is the code's
\* result for every base score from 0.00 to 100.00.
Power(pct, elasticity) ==
  CASE pct = 0          -> <<1, 1>>
    [] elasticity = 0   -> <<1, 1>>
    [] elasticity = 10  -> <<10000 + pct, 10000>>
    [] elasticity = 12 /\ pct = 620   -> <<21697, 20186>>
    [] elasticity = 12 /\ pct = 1250  -> <<106695, 92632>>
    [] elasticity = 12 /\ pct = 1880  -> <<17247, 14026>>
    [] elasticity = 12 /\ pct = 2500  -> <<85549, 65452>>
    [] elasticity = 12 /\ pct = 3120  -> <<74352, 53675>>
    [] elasticity = 12 /\ pct = 5000  -> <<84662, 52045>>
    [] elasticity = 12 /\ pct = 10000 -> <<169263, 73676>>
    [] elasticity = 12 /\ pct = 15000 -> <<293756, 97827>>
    [] elasticity = 12 /\ pct = 20000 -> <<88052, 23561>>
    [] elasticity = 12 /\ pct = 30000 -> <<214837, 40704>>

\* The risk level with "critical" kept for scores below 35.
_risk_level_lenient(delivery_score) ==
  IF delivery_score >= 7000 THEN "low"
  ELSE IF delivery_score >= 5500 THEN "moderate"
  ELSE IF delivery_score >= 3500 THEN "high"
  ELSE "critical"

\* simulation.py _risk_level(delivery_score).
_risk_level(delivery_score) ==
  IF delivery_score >= 7000 THEN "low"
  ELSE IF delivery_score >= 5500 THEN "moderate"
  ELSE IF delivery_score >= 4000 THEN "high"
  ELSE "critical"

\* The delivery score recomposed as the plain mean of the sub-scores.
RecomposeUnweighted(new_picking, packing_score, new_dispatch) ==
  Round(new_picking + packing_score + new_dispatch, 3)

\* The delivery score simulate_scenario recomposes from the projected
\* sub-scores, with the weights as simulation.py reads them.
Recompose(new_picking, packing_score, new_dispatch) ==
  Round(WEIGHTS.picking * new_picking + WEIGHTS.packing * packing_score
          + WEIGHTS.dispatch * new_dispatch, 10)

\* simulation.py _apply_load(base_score, increase_factor, elasticity).
_apply_load(base_score, pct, elasticity) ==
  LET power == Power(pct, elasticity)
  IN  Round(base_score * power[2], power[1])

\* simulate_scenario with the packing score put under the load as well, at
\* the picking elasticity.
simulate_scenario_packing_loaded(week, order_increase_pct, label, picking_elasticity, dispatch_elasticity, table) ==
  Only({
    IF metrics.status = "raised" THEN metrics
    ELSE
      LET m == metrics.value
      IN  Only({
            Returned([label              |-> IF label = None \/ label = Some("")
                                             THEN [text |-> "+% orders",
                                                   pct  |-> order_increase_pct]
                                             ELSE [text |-> label[1],
                                                   pct  |-> order_increase_pct],
                      order_increase_pct |-> order_increase_pct,
                      picking_score      |-> new_picking,
                      packing_score      |-> _apply_load(m.packing_score, order_increase_pct,
                                                         picking_elasticity),
                      dispatch_score     |-> new_dispatch,
                      delivery_score     |-> new_delivery,
                      delivery_delta     |-> Round(new_delivery - m.delivery_score, 1),
                      risk_level         |-> _risk_level(new_delivery)]) :
            new_picking  \in { _apply_load(m.picking_score, order_increase_pct,
                                           picking_elasticity) },
            new_dispatch \in { _apply_load(m.dispatch_score, order_increase_pct,
                                           dispatch_elasticity) },
            new_delivery \in { Recompose(
                                 _apply_load(m.picking_score, order_increase_pct,
                                             picking_elasticity),
                                 m.packing_score,
                                 _apply_load(m.dispatch_score, order_increase_pct,
                                             dispatch_elasticity)) } }) :
    metrics \in { calculate_week_metrics(week, table) } })

\* simulation.py simulate_scenario(week, order_increase_pct, label,
\* picking_elasticity, dispatch_elasticity, df); label is an Optional.
simulate_scenario(week, order_increase_pct, label, picking_elasticity, dispatch_elasticity, table) ==
  Only({
    IF metrics.status = "raised" THEN metrics
    ELSE
      LET m == metrics.value
      IN  Only({
            Returned([label              |-> IF label = None \/ label = Some("")
                                             THEN [text |-> "+% orders",
                                                   pct  |-> order_increase_pct]
                                             ELSE [text |-> label[1],
                                                   pct  |-> order_increase_pct],
                      order_increase_pct |-> order_increase_pct,
                      picking_score      |-> new_picking,
                      packing_score      |-> m.packing_score,
                      dispatch_score     |-> new_dispatch,
                      delivery_score     |-> new_delivery,
                      delivery_delta     |-> Round(new_delivery - m.delivery_score, 1),
                      risk_level         |-> _risk_level(new_delivery)]) :
            new_picking  \in { _apply_load(m.picking_score, order_increase_pct,
                                           picking_elasticity) },
            new_dispatch \in { _apply_load(m.dispatch_score, order_increase_pct,
                                           dispatch_elasticity) },
            new_delivery \in { Recompose(
                                 _apply_load(m.picking_score, order_increase_pct,
                                             picking_elasticity),
                                 m.packing_score,
                                 _apply_load(m.dispatch_score, order_increase_pct,
                                             dispatch_elasticity)) } }) :
    metrics \in { calculate_week_metrics(week, table) } })

RECURSIVE FirstRaised(_)
\* The first raised outcome of a sequence of outcomes, as an Optional: a
\* list comprehension stops at the first call that raises.
FirstRaised(outcomes) ==
  IF outcomes = <<>> THEN None
  ELSE IF Head(outcomes).status = "raised" THEN Some(Head(outcomes))
       ELSE FirstRaised(Tail(outcomes))

RECURSIVE FirstBelowTruthy(_, _)
\* The search with the percentage itself as the filter's last test: a
\* percentage of 0 is falsy and is passed over.
FirstBelowTruthy(scenarios, floor) ==
  IF scenarios = <<>> THEN None
  ELSE IF Head(scenarios).delivery_score < floor /\ Head(scenarios).order_increase_pct # 0
       THEN Some(Head(scenarios).order_increase_pct)
       ELSE FirstBelowTruthy(Tail(scenarios), floor)

RECURSIVE FirstBelow(_, _)
\* next((s.order_increase_pct for s in scenarios if s.delivery_score < floor),
\* None).
FirstBelow(scenarios, floor) ==
  IF scenarios = <<>> THEN None
  ELSE IF Head(scenarios).delivery_score < floor THEN Some(Head(scenarios).order_increase_pct)
       ELSE FirstBelow(Tail(scenarios), floor)

\* simulate_load_range without its own lookup of the base week: the baseline
\* is taken back from the first scenario.
simulate_load_range_unchecked(week, increments, table) ==
  Only({
    IF FirstRaised(outcomes) # None THEN FirstRaised(outcomes)[1]
    ELSE
      Only({ Returned([kpi                |-> "Delivery Timeliness",
                       base_week          |-> week,
                       baseline_delivery  |-> IF scenarios = <<>> THEN 0
                                              ELSE scenarios[1].delivery_score
                                                     - scenarios[1].delivery_delta,
                       scenarios          |-> scenarios,
                       breaking_point_pct |-> FirstBelow(scenarios, 4000)]) :
             scenarios \in { [i \in 1..Len(outcomes) |-> outcomes[i].value] } }) :
    outcomes \in { [i \in 1..Len(increments) |->
                      simulate_scenario(week, increments[i], None, 10, 12, table)] } })

\* simulation.py simulate_load_range(week, increments, df).
simulate_load_range(week, increments, table) ==
  Only({
    IF base.status = "raised" THEN base
    ELSE IF FirstRaised(outcomes) # None THEN FirstRaised(outcomes)[1]
    ELSE
      Only({ Returned([kpi                |-> "Delivery Timeliness",
                       base_week          |-> week,
                       baseline_delivery  |-> base.value.delivery_score,
                       scenarios          |-> scenarios,
                       breaking_point_pct |-> FirstBelow(scenarios, 4000)]) :
             scenarios \in { [i \in 1..Len(outcomes) |-> outcomes[i].value] } }) :
    base     \in { calculate_week_metrics(week, table) },
    outcomes \in { [i \in 1..Len(increments) |->
                      simulate_scenario(week, increments[i], None, 10, 12, table)] } })

(* ------------------------------ operations ---------------------------- *)

\* The state once the table is loaded (main.py lifespan) and before any
\* request.
Init ==
  /\ df \in Tables
  /\ tiesAway \in BOOLEAN
  /\ call = [op |-> "none"]
  /\ result = [status |-> "none"]
  /\ memo = None
  /\ remembered = None

\* No request is being served: the previous response has been delivered.
Idle == call.op = "none"

\* The history variables, which no operation of the program reads or writes.
history == <<memo, remembered>>

\* GET /metrics/{week}: metrics.py calculate_week_metrics(week, df).
CalculateWeekMetrics(week) ==
  /\ Idle
  /\ call' = [op |-> "calculate_week_metrics", week |-> week]
  /\ result' = calculate_week_metrics(week, df)
  /\ UNCHANGED <<df, tiesAway>>

\* detect_anomalies filtering the caller's table in place instead of a copy.
DetectAnomaliesInPlace(week_filter) ==
  /\ Idle
  /\ \E decision \in [ScopedFeatures(df, week_filter) -> DecisionValues] :
       \E most_common \in
            MostCommonTriggers(AllTriggers(Anomalies(df, week_filter, decision))) :
         /\ call' = [op |-> "detect_anomalies", week_filter |-> week_filter,
                     decision |-> decision]
         /\ result' = detect_anomalies(df, week_filter, decision, most_common)
  /\ df' = [j \in 1..Len(ScopedIndex(df, week_filter)) |->
              df[ScopedIndex(df, week_filter)[j]]]
  /\ UNCHANGED tiesAway

\* GET /anomalies: model.py detect_anomalies(df, week_filter = week_filter).
\* The function works on copies (df[...].copy(), df.copy()) and leaves the
\* caller's table as it was.
DetectAnomalies(week_filter) ==
  /\ Idle
  /\ \E decision \in [ScopedFeatures(df, week_filter) -> DecisionValues] :
       \E most_common \in
            MostCommonTriggers(AllTriggers(Anomalies(df, week_filter, decision))) :
         /\ call' = [op |-> "detect_anomalies", week_filter |-> week_filter,
                     decision |-> decision]
         /\ result' = detect_anomalies(df, week_filter, decision, most_common)
  /\ UNCHANGED <<df, tiesAway>>

\* GET /root-cause: root_cause.py root_cause_analysis(current_week,
\* previous_week, df).
RootCauseAnalysis(current_week, previous_week) ==
  /\ Idle
  /\ call' = [op |-> "root_cause_analysis", current_week |-> current_week,
              previous_week |-> previous_week]
  /\ result' = root_cause_analysis(current_week, previous_week, df)
  /\ UNCHANGED <<df, tiesAway>>

\* simulation.py simulate_scenario(week, order_increase_pct, None,
\* picking_elasticity, dispatch_elasticity, df).
SimulateScenario(week, order_increase_pct, picking_elasticity, dispatch_elasticity) ==
  /\ Idle
  /\ call' = [op |-> "simulate_scenario", week |-> week,
              order_increase_pct |-> order_increase_pct,
              picking_elasticity |-> picking_elasticity,
              dispatch_elasticity |-> dispatch_elasticity]
  /\ result' = simulate_scenario(week, order_increase_pct, None, picking_elasticity,
                                 dispatch_elasticity, df)
  /\ UNCHANGED <<df, tiesAway>>

\* simulation.py simulate_load_range(week, increments, df).
SimulateLoadRange(week, increments) ==
  /\ Idle
  /\ call' = [op |-> "simulate_load_range", week |-> week, increments |-> increments]
  /\ result' = simulate_load_range(week, increments, df)
  /\ UNCHANGED <<df, tiesAway>>

\* The outcome is handed to the caller (the response is returned, or the
\* exception reported); the next request can be served.
Respond ==
  /\ ~Idle
  /\ call' = [op |-> "none"]
  /\ result' = [status |-> "none"]
  /\ UNCHANGED <<df, tiesAway>>

\* The arguments the requests are made with.
WeekFilters == { None } \cup { Some(w) : w \in Weeks }
IncrementLists == SeqsUpTo(PctValues, MaxIncrements)

Next ==
  \/ \E week \in Weeks : CalculateWeekMetrics(week) /\ UNCHANGED history
  \/ \E week_filter \in WeekFilters : DetectAnomalies(week_filter) /\ UNCHANGED history
  \/ \E current_week, previous_week \in Weeks :
       RootCauseAnalysis(current_week, previous_week) /\ UNCHANGED history
  \/ \E week \in Weeks, pct \in PctValues, pe, de \in ElasticityValues :
       SimulateScenario(week, pct, pe, de) /\ UNCHANGED history
  \/ \E week \in Weeks, increments \in IncrementLists :
       SimulateLoadRange(week, increments) /\ UNCHANGED history
  \/ Respond /\ UNCHANGED history

Spec == Init /\ [][Next]_vars

(* ------------------ a session, with its history kept ------------------ *)

\* The history after a request: the first calculate_week_metrics call on the
\* table with its outcome, and whether another operation was served since.
Recorded ==
  IF memo = None
  THEN IF call'.op = "calculate_week_metrics"
       THEN Some([week |-> call'.week, outcome |-> result', interleaved |-> FALSE])
       ELSE None
  ELSE IF call'.op = "calculate_week_metrics" THEN memo
       ELSE Some([memo[1] EXCEPT !.interleaved = TRUE])

Record == memo' = Recorded /\ UNCHANGED remembered

NextSession ==
  \/ \E week \in Weeks : CalculateWeekMetrics(week) /\ Record
  \/ \E week_filter \in WeekFilters : DetectAnomalies(week_filter) /\ Record
  \/ \E current_week, previous_week \in Weeks :
       RootCauseAnalysis(current_week, previous_week) /\ Record
  \/ \E week \in Weeks, pct \in PctValues, pe, de \in ElasticityValues :
       SimulateScenario(week, pct, pe, de) /\ Record
  \/ \E week \in Weeks, increments \in IncrementLists :
       SimulateLoadRange(week, increments) /\ Record
  \/ Respond /\ UNCHANGED history

SpecSession == Init /\ [][NextSession]_vars

(* -------------------- the alert generator on its own ------------------ *)

\* The values a metric is given in a call of _generate_alerts, as rationals:
\* past the critical threshold, at it, at the warning threshold, and on the
\* good side of both.
AlertInputs(metric) ==
  LET critical == ALERT_THRESHOLDS[metric].critical
      warning  == ALERT_THRESHOLDS[metric].warning
  IN  IF metric # "error_rate"
      THEN { <<critical - 500, 100>>, <<critical, 100>>, <<warning, 100>>,
             <<warning + 1000, 100>> }
      ELSE { <<critical + 50, 100>>, <<critical, 100>>, <<warning, 100>>,
             <<warning - 30, 100>> }

AlertMetrics == { AlertMetricOrder[i] : i \in 1..Len(AlertMetricOrder) }

\* The dicts _generate_alerts is called with: any of the monitored metrics
\* present, each with one of its AlertInputs.
MetricDicts ==
  UNION { { m \in [present -> UNION { AlertInputs(k) : k \in present }] :
              \A k \in present : m[k] \in AlertInputs(k) } :
          present \in SUBSET AlertMetrics }

\* The level the alerts list reports for a metric, "none" when it holds no
\* alert for it.
ReportedLevel(alerts, metric) ==
  IF \E i \in 1..Len(alerts) : alerts[i].metric = metric
  THEN alerts[CHOOSE i \in 1..Len(alerts) : alerts[i].metric = metric].level
  ELSE "none"

InitAlerts ==
  /\ df = <<>>
  /\ tiesAway \in BOOLEAN
  /\ call = [op |-> "none"]
  /\ result = [status |-> "none"]
  /\ memo = None
  /\ remembered = None

\* metrics.py _generate_alerts(metrics).
GenerateAlerts(metrics) ==
  /\ Idle
  /\ call' = [op |-> "_generate_alerts", metrics |-> metrics]
  /\ result' = Returned(_generate_alerts(metrics))
  /\ UNCHANGED <<df, tiesAway>>

\* The caller keeps one metric's reading of the call being answered: its
\* value and the level the alerts reported for it.
Remember(metric) ==
  remembered' = Some([metric |-> metric,
                      value  |-> call.metrics[metric],
                      level  |-> ReportedLevel(result.value, metric)])

NextAlerts ==
  \/ (\E metrics \in MetricDicts : GenerateAlerts(metrics)) /\ UNCHANGED history
  \/ Respond /\ (\E metric \in DOMAIN call.metrics : Remember(metric)) /\ UNCHANGED memo
  \/ Respond /\ UNCHANGED history

SpecAlerts == InitAlerts /\ [][NextAlerts]_vars

(* ------------------------------ properties ---------------------------- *)

\* The table holds a record of the week.
WeekPresent(week) == \E i \in 1..Len(df) : df[i].week = week

\* The not-found error of calculate_week_metrics.
NoData(week) == Raised("ValueError", <<"No data found for week", week>>)

\* C1: for a week with no record in the table, calculate_week_metrics,
\* root_cause_analysis (the current week absent, or the previous one),
\* simulate_scenario and simulate_load_range (whatever the increments, the
\* empty list included) raise the not-found error and return nothing.
C1_AbsentWeekNotFound ==
  /\ (call.op = "calculate_week_metrics" /\ ~WeekPresent(call.week))
       => result = NoData(call.week)
  /\ (call.op = "root_cause_analysis" /\ ~WeekPresent(call.current_week))
       => result = NoData(call.current_week)
  /\ (call.op = "root_cause_analysis" /\ WeekPresent(call.current_week)
        /\ ~WeekPresent(call.previous_week))
       => result = NoData(call.previous_week)
  /\ (call.op = "simulate_scenario" /\ ~WeekPresent(call.week))
       => result = NoData(call.week)
  /\ (call.op = "simulate_load_range" /\ ~WeekPresent(call.week))
       => result = NoData(call.week)

\* simulate_load_range has been called for an absent week with no increment,
\* and has raised.
C1_Witness ==
  /\ call.op = "simulate_load_range"
  /\ call.increments = <<>>
  /\ ~WeekPresent(call.week)
  /\ result.status = "raised"

\* C2: for a week with a record in the table, calculate_week_metrics returns,
\* and the delivery_score returned is 0.4 * picking_score + 0.3 * packing_score
\* + 0.3 * dispatch_score of the sub-scores returned, rounded to 2 decimals:
\* it is a multiple of 0.01 no further than 0.005 from the sum.
C2_DeliveryIsWeightedSum ==
  (call.op = "calculate_week_metrics" /\ WeekPresent(call.week)) =>
    /\ result.status = "returned"
    /\ Abs(10 * result.value.delivery_score
             - (4 * result.value.picking_score + 3 * result.value.packing_score
                  + 3 * result.value.dispatch_score)) <= 5

\* calculate_week_metrics has returned sub-scores that differ from one
\* another, and a delivery score the rounding has moved off the sum.
C2_Witness ==
  /\ call.op = "calculate_week_metrics"
  /\ result.status = "returned"
  /\ result.value.picking_score # result.value.packing_score
  /\ 10 * result.value.delivery_score
       # 4 * result.value.picking_score + 3 * result.value.packing_score
           + 3 * result.value.dispatch_score

\* C3: a call of calculate_week_metrics for the week of the first call gives
\* the outcome of the first call, field for field, whatever operations were
\* served in between.
C3_Idempotent ==
  (call.op = "calculate_week_metrics" /\ memo # None /\ memo[1].week = call.week)
    => result = memo[1].outcome

\* calculate_week_metrics is answering for the week of the first call after
\* another operation was served, and returns metrics with forecasts.
C3_Witness ==
  /\ call.op = "calculate_week_metrics"
  /\ memo # None
  /\ memo[1].week = call.week
  /\ memo[1].interleaved
  /\ result.status = "returned"
  /\ result.value.forecasts # <<>>
  /\ result.value.alerts # <<>>

\* C4: when no record is in the scope of detect_anomalies (the table empty,
\* or no record of the week filtered on), it returns a report of
\* total_records 0, anomaly_count 0, anomaly_rate 0, no anomaly and
\* most_common_trigger "none".
C4_EmptyScopeZeroReport ==
  (call.op = "detect_anomalies" /\ ScopedIndex(df, call.week_filter) = <<>>) =>
    /\ result.status = "returned"
    /\ result.value.total_records = 0
    /\ result.value.anomaly_count = 0
    /\ result.value.anomaly_rate[1] = 0
    /\ result.value.anomalies = <<>>
    /\ result.value.most_common_trigger = "none"

\* The records in scope the fitted model predicts as inliers.
Inliers ==
  LET scoped == ScopedIndex(df, call.week_filter)
  IN  { j \in 1..Len(scoped) : call.decision[FeatureVector(df[scoped[j]])] >= 0 }

\* C5: when some record is in scope, detect_anomalies returns a report with
\* anomaly_count = len(anomalies) = total_records - the number of records
\* predicted inliers, anomaly_rate = anomaly_count / total_records, and the
\* anomalies in non-decreasing order of anomaly_score.
C5_AnomalyReportConsistent ==
  (call.op = "detect_anomalies" /\ ScopedIndex(df, call.week_filter) # <<>>) =>
    /\ result.status = "returned"
    /\ result.value.total_records = Len(ScopedIndex(df, call.week_filter))
    /\ result.value.anomaly_count = Len(result.value.anomalies)
    /\ result.value.anomaly_count = result.value.total_records - Cardinality(Inliers)
    /\ result.value.anomaly_rate[1] * result.value.total_records
         = result.value.anomaly_count * result.value.anomaly_rate[2]
    /\ \A i \in 1..(Len(result.value.anomalies) - 1) :
         result.value.anomalies[i].anomaly_score
           <= result.value.anomalies[i + 1].anomaly_score

\* detect_anomalies has returned two anomalies of different scores, the
\* later record of the table first, and has left a record as an inlier.
C5_Witness ==
  /\ call.op = "detect_anomalies"
  /\ result.status = "returned"
  /\ result.value.anomaly_count = 2
  /\ result.value.total_records = 3
  /\ result.value.anomalies[1].row_index > result.value.anomalies[2].row_index
  /\ result.value.anomalies[1].anomaly_score < result.value.anomalies[2].anomaly_score

\* The metrics of the two weeks of the root_cause_analysis call.
CurrentMetrics == calculate_week_metrics(call.current_week, df).value
PreviousMetrics == calculate_week_metrics(call.previous_week, df).value

\* The verdict that states the improvement: it names no driver.
ImprovementVerdict ==
  [text |-> "Performance improved week-over-week. No corrective action required."]

\* C6: for two weeks with records in the table, root_cause_analysis returns
\* total_drop = previous.delivery_score - current.delivery_score, and when
\* total_drop <= 0 (a week compared with itself included) the verdict is the
\* improvement statement, which names no driver.
C6_TotalDropAndImprovement ==
  (call.op = "root_cause_analysis" /\ WeekPresent(call.current_week)
     /\ WeekPresent(call.previous_week)) =>
    /\ result.status = "returned"
    /\ result.value.previous_score = PreviousMetrics.delivery_score
    /\ result.value.current_score = CurrentMetrics.delivery_score
    /\ result.value.total_drop
         = PreviousMetrics.delivery_score - CurrentMetrics.delivery_score
    /\ result.value.total_drop <= 0 => result.value.verdict = ImprovementVerdict
    /\ result.value.total_drop > 0 => result.value.verdict # ImprovementVerdict

\* root_cause_analysis has compared a week with itself and stated the
\* improvement.
C6_Witness ==
  /\ call.op = "root_cause_analysis"
  /\ call.current_week = call.previous_week
  /\ result.status = "returned"
  /\ result.value.total_drop = 0
  /\ result.value.verdict = ImprovementVerdict

\* The composite weight of a sub-metric, in tenths, and its scores in the
\* metrics of a week.
CompositeWeight(metric) ==
  IF metric = "picking_score" THEN 4 ELSE 3

\* The drivers are the three sub-metrics, each with the scores of the two
\* weeks, in non-decreasing order of weighted_impact, and main_driver is the
\* first one's metric.
DriversOrdered ==
  LET drivers == result.value.drivers
  IN  /\ Len(drivers) = 3
      /\ { drivers[i].metric : i \in 1..3 }
           = { "picking_score", "packing_score", "dispatch_score" }
      /\ \A i \in 1..3 :
           /\ drivers[i].current = CurrentMetrics[drivers[i].metric]
           /\ drivers[i].previous = PreviousMetrics[drivers[i].metric]
           /\ drivers[i].weight = CompositeWeight(drivers[i].metric)
      /\ \A i \in 1..2 : drivers[i].weighted_impact <= drivers[i + 1].weighted_impact
      /\ result.value.main_driver = drivers[1].metric
      /\ \A i \in 1..3 : drivers[1].weighted_impact <= drivers[i].weighted_impact

C8_NoIncreaseNoChange ==
  (call.op = "simulate_scenario" /\ call.order_increase_pct = 0
     /\ WeekPresent(call.week)) =>
    LET base == calculate_week_metrics(call.week, df).value
    IN  /\ result.status = "returned"
        /\ result.value.picking_score = base.picking_score
        /\ result.value.packing_score = base.packing_score
        /\ result.value.dispatch_score = base.dispatch_score
        /\ result.value.delivery_score = base.delivery_score
        /\ result.value.delivery_delta = 0

\* simulate_scenario has returned for no increase, with the elasticities 1.2
\* and 0, on a week whose sub-scores differ.
C8_Witness ==
  /\ call.op = "simulate_scenario"
  /\ call.order_increase_pct = 0
  /\ call.picking_elasticity = 12
  /\ call.dispatch_elasticity = 0
  /\ result.status = "returned"
  /\ result.value.picking_score # result.value.packing_score
  /\ result.value.delivery_delta = 0

\* The positions of the scenarios returned whose delivery score is below 40.
BelowFloor ==
  { i \in 1..Len(result.value.scenarios) :
      result.value.scenarios[i].delivery_score < 4000 }

\* C9: a report of simulate_load_range holds one scenario per percentage
\* given, in the order given, each the scenario simulate_scenario gives for
\* it; breaking_point_pct is the percentage of the first of them whose
\* delivery_score < 40, a percentage of 0 included, and absent only when
\* none is below 40.
C9_BreakingPointIsFirstBelow ==
  (call.op = "simulate_load_range" /\ result.status = "returned") =>
    LET scenarios == result.value.scenarios
    IN  /\ Len(scenarios) = Len(call.increments)
        /\ \A i \in 1..Len(scenarios) :
             /\ scenarios[i].order_increase_pct = call.increments[i]
             /\ Returned(scenarios[i])
                  = simulate_scenario(call.week, call.increments[i], None, 10, 12, df)
        /\ IF BelowFloor = {}
           THEN result.value.breaking_point_pct = None
           ELSE result.value.breaking_point_pct
                  = Some(call.increments[CHOOSE i \in BelowFloor :
                                           \A j \in BelowFloor : i <= j])

\* simulate_load_range has returned two scenarios below 40, the first of
\* them for no increase, and reports 0 as the breaking point.
C9_Witness ==
  /\ call.op = "simulate_load_range"
  /\ result.status = "returned"
  /\ call.increments = <<0, 10000>>
  /\ BelowFloor = {1, 2}
  /\ result.value.breaking_point_pct = Some(0)

\* value is as far past the critical threshold of the metric as other, or
\* further: no greater for a score, no smaller for error_rate.
FurtherPast(metric, value, other) ==
  IF metric # "error_rate"
  THEN value[1] * other[2] <= other[1] * value[2]
  ELSE value[1] * other[2] >= other[1] * value[2]

\* C10: when _generate_alerts has given a critical alert for a value of a
\* metric, it gives a critical alert for any value of that metric further
\* past the critical threshold (smaller for the four scores, greater for
\* error_rate): neither a warning nor no alert.
C10_CriticalStaysCritical ==
  (call.op = "_generate_alerts" /\ remembered # None) =>
    LET metric == remembered[1].metric
    IN  (/\ remembered[1].level = "critical"
         /\ metric \in DOMAIN call.metrics
         /\ FurtherPast(metric, call.metrics[metric], remembered[1].value))
          => ReportedLevel(result.value, metric) = "critical"

\* _generate_alerts gave a critical alert for an error_rate and is answering
\* for a greater one, with a critical alert again.
C10_Witness ==
  /\ call.op = "_generate_alerts"
  /\ remembered # None
  /\ remembered[1].metric = "error_rate"
  /\ remembered[1].level = "critical"
  /\ "error_rate" \in DOMAIN call.metrics
  /\ call.metrics["error_rate"][1] > remembered[1].value[1]
  /\ ReportedLevel(result.value, "error_rate") = "critical"

(* ----------------------- the forecaster on its own --------------------- *)

\* The weekly means a series is made of, as <<sum, count>>: 31/3, 34/3, 37/3
\* and 40/3 lie on a line of slope 1, 12 does not.
ForecastMeans == { <<31, 3>>, <<34, 3>>, <<37, 3>>, <<40, 3>>, <<12, 1>> }

InitForecast ==
  /\ df = <<>>
  /\ tiesAway \in BOOLEAN
  /\ call = [op |-> "none"]
  /\ result = [status |-> "none"]
  /\ memo = None
  /\ remembered = None

\* metrics.py _forecast_metric(series, metric_name).
ForecastMetric(series, metric_name) ==
  /\ Idle
  /\ call' = [op |-> "_forecast_metric", series |-> series, metric_name |-> metric_name]
  /\ result' = Returned(_forecast_metric(series, metric_name))
  /\ UNCHANGED <<df, tiesAway>>

NextForecast ==
  \/ \E series \in SeqsUpTo(ForecastMeans, MaxPoints) :
       ForecastMetric(series, "pick_time") /\ UNCHANGED history
  \/ Respond /\ UNCHANGED history

SpecForecast == InitForecast /\ [][NextForecast]_vars

\* A mean <<sum, count>> in twelfths.
Twelfths(mean) == (12 * mean[1]) \div mean[2]

\* The points of the series lie on one line, and it is not level.
CollinearSloped(series) ==
  /\ Twelfths(series[2]) # Twelfths(series[1])
  /\ \A i \in 1..(Len(series) - 1) :
       Twelfths(series[i + 1]) - Twelfths(series[i])
         = Twelfths(series[2]) - Twelfths(series[1])

\* The value at index len(series) of the line through the first two points,
\* in twelfths.
LineAtNext(series) ==
  Twelfths(series[1]) + Len(series) * (Twelfths(series[2]) - Twelfths(series[1]))

\* What C11 says of every series but for next_week_value: None below 3
\* points, a Forecast from 3 on, and r_squared 1.0 with confidence "high"
\* on a sloped line.
ForecastShape ==
  /\ result.status = "returned"
  /\ Len(call.series) < 3 => result.value = None
  /\ Len(call.series) >= 3 =>
       /\ result.value # None
       /\ CollinearSloped(call.series) =>
            /\ result.value[1].r_squared = 10000
            /\ result.value[1].confidence = "high"

\* C11: _forecast_metric returns None for a series of fewer than 3 points and
\* a Forecast for one of 3 or more; for points on a line that is not level
\* r_squared is 1.0, confidence is "high", and next_week_value is the line's
\* value at index n rounded to 2 decimals: a multiple of 0.01 no further than
\* 0.005 from it.
C11_ForecastRounded ==
  call.op = "_forecast_metric" =>
    /\ ForecastShape
    /\ (Len(call.series) >= 3 /\ CollinearSloped(call.series)) =>
         Abs(12 * result.value[1].next_week_value - 100 * LineAtNext(call.series)) <= 6

\* C11 as stated: next_week_value is the line's value at index n itself.
C11_ForecastExact ==
  call.op = "_forecast_metric" =>
    /\ ForecastShape
    /\ (Len(call.series) >= 3 /\ CollinearSloped(call.series)) =>
         12 * result.value[1].next_week_value = 100 * LineAtNext(call.series)

\* _forecast_metric has returned a Forecast for four points on a line that
\* is not level, its next value rounded.
C11_Witness ==
  /\ call.op = "_forecast_metric"
  /\ Len(call.series) = 4
  /\ CollinearSloped(call.series)
  /\ result.value # None
  /\ result.value[1].r_squared = 10000
  /\ 12 * result.value[1].next_week_value # 100 * LineAtNext(call.series)

(* ------------------------- the insights request ----------------------- *)

\* JSON values of the narrative generator's reply, all of one shape.
JsonNull == [type |-> "null", text |-> "", items |-> <<>>]
JsonString(text) == [type |-> "string", text |-> text, items |-> <<>>]
JsonArray(items) == [type |-> "array", text |-> "", items |-> items]

\* The fields of AIInsightsResponse (main.py) and, for each, the values the
\* generator's JSON object may give it: a value of the declared type, null,
\* and for recommendations a string in place of the list.
InsightFields == {"status", "summary", "bottleneck", "root_cause", "recommendations"}

ReplyValues(field) ==
  IF field = "recommendations"
  THEN { JsonArray(<<"r1", "r2", "r3">>), JsonNull, JsonString("r1") }
  ELSE { JsonString(IF field = "status" THEN "Normal" ELSE "text"), JsonNull }

\* The JSON objects of a reply: any of the fields present.
ReplyObjects ==
  UNION { { o \in [present -> UNION { ReplyValues(f) : f \in present }] :
              \A f \in present : o[f] \in ReplyValues(f) } :
          present \in SUBSET InsightFields }

\* What the narrative generator does on a call: the credential is missing,
\* the transport fails or times out, the reply has no content, no JSON
\* object, a JSON object that does not parse, or it is a JSON object.
GeneratorOutcomes ==
  { [kind |-> k, object |-> <<>>] :
      k \in {"missing_credential", "transport_error", "timeout", "no_content",
             "no_json", "bad_json"} }
    \cup { [kind |-> "object", object |-> o] : o \in ReplyObjects }

\* Llmclient.py _extract_json(text), on the reply's text.
_extract_json(generator) ==
  CASE generator.kind = "no_json"  -> Raised("ValueError", "No valid JSON found in LLM response")
    [] generator.kind = "bad_json" -> Raised("JSONDecodeError", "Expecting value")
    [] generator.kind = "object"   -> Returned(generator.object)

\* Llmclient.py call_llm(context).
call_llm(generator) ==
  CASE generator.kind = "missing_credential" ->
         Raised("EnvironmentError", "GROQ_API_KEY environment variable is not set.")
    [] generator.kind = "transport_error" -> Raised("APIConnectionError", "Connection error.")
    [] generator.kind = "timeout"         -> Raised("APITimeoutError", "Request timed out.")
    [] generator.kind = "no_content"      ->
         Raised("TypeError", "expected string or bytes-like object")
    [] OTHER -> _extract_json(generator)

\* dict.setdefault(key, default).
SetDefault(dict, key, default) ==
  IF key \in DOMAIN dict THEN dict
  ELSE [k \in DOMAIN dict \cup {key} |-> IF k = key THEN default ELSE dict[k]]

\* Aiservice.py generate_week_insights(current_week, previous_week): the
\* dict returned.  The _fetch_ functions are stubs that do not raise.
generate_week_insights(current_week, previous_week, generator) ==
  LET reply == call_llm(generator)
  IN  IF reply.status = "raised"
      THEN [status          |-> JsonString("Error"),
            summary         |-> JsonString("LLM error: " \o reply.message),
            bottleneck      |-> JsonNull,
            root_cause      |-> JsonNull,
            recommendations |-> JsonArray(<<>>)]
      ELSE SetDefault(SetDefault(SetDefault(SetDefault(SetDefault(reply.value,
             "status", JsonString("Alert")),
             "summary", JsonString("")),
             "bottleneck", JsonNull),
             "root_cause", JsonNull),
             "recommendations", JsonArray(<<>>))

\* The fields of a dict whose value is not of the type AIInsightsResponse
\* declares: status and summary are str, bottleneck and root_cause
\* Optional[str], recommendations List[str].
IllTyped(dict) ==
  { f \in InsightFields \cap DOMAIN dict :
      \/ f \in {"status", "summary"} /\ dict[f].type # "string"
      \/ f \in {"bottleneck", "root_cause"} /\ dict[f].type \notin {"string", "null"}
      \/ f = "recommendations" /\ dict[f].type # "array" }

\* The fields for which AIInsightsResponse(**result) refuses the dict: the
\* missing ones (status, summary and recommendations have no default) and
\* the ill-typed ones.
Refused(dict) ==
  ({"status", "summary", "recommendations"} \ DOMAIN dict) \cup IllTyped(dict)

\* main.py validate_week(week, df): the week is among the table's.
validate_week(week, table) == \E i \in 1..Len(table) : table[i].week = week

\* main.py ai_insights(current_week, previous_week).
ai_insights(current_week, previous_week, table, generator) ==
  IF ~validate_week(current_week, table) \/ ~validate_week(previous_week, table)
  THEN Raised("HTTPException", "Week not found.")
  ELSE IF current_week = previous_week
  THEN Raised("HTTPException", "Weeks must be different.")
  ELSE LET insights == generate_week_insights(current_week, previous_week, generator)
       IN  IF Refused(insights) # {}
           THEN Raised("ValidationError", "validation error for AIInsightsResponse")
           ELSE Returned(insights)

\* The tables the insights request is served on: rows of one profile.
InsightTables == { t \in Tables : \A i \in 1..Len(t) : t[i].error_count = 0 }

InitInsights ==
  /\ df \in InsightTables
  /\ tiesAway \in BOOLEAN
  /\ call = [op |-> "none"]
  /\ result = [status |-> "none"]
  /\ memo = None
  /\ remembered = None

\* GET /ai/insights.
AiInsights(current_week, previous_week, generator) ==
  /\ Idle
  /\ call' = [op |-> "ai_insights", current_week |-> current_week,
              previous_week |-> previous_week, generator |-> generator]
  /\ result' = ai_insights(current_week, previous_week, df, generator)
  /\ UNCHANGED <<df, tiesAway>>

NextInsights ==
  \/ \E current_week, previous_week \in Weeks, generator \in GeneratorOutcomes :
       AiInsights(current_week, previous_week, generator) /\ UNCHANGED history
  \/ Respond /\ UNCHANGED history

SpecInsights == InitInsights /\ [][NextInsights]_vars

\* The generator failed: it gave no JSON object, or one with a field that is
\* not of its declared type.  A field left out is not a failure: it gets its
\* default.
GeneratorFailed(generator) ==
  \/ generator.kind # "object"
  \/ IllTyped(generator.object) # {}

\* C12: when the narrative generator fails (credential missing, transport
\* error or timeout, malformed reply), the insights request for two
\* different weeks of the table returns a result of status "Error" with a
\* summary that explains, no recommendation, and bottleneck and root_cause
\* null; and every result returned holds the five fields.
C12_GeneratorFailureDegrades ==
  (call.op = "ai_insights"
     /\ validate_week(call.current_week, df) /\ validate_week(call.previous_week, df)
     /\ call.current_week # call.previous_week) =>
    /\ result.status = "returned"
    /\ DOMAIN result.value = InsightFields
    /\ GeneratorFailed(call.generator) =>
         /\ result.value.status = JsonString("Error")
         /\ result.value.summary.type = "string"
         /\ result.value.summary.text # ""
         /\ result.value.recommendations = JsonArray(<<>>)
         /\ result.value.bottleneck = JsonNull
         /\ result.value.root_cause = JsonNull

(* ------------------ scores over any raw timing values ----------------- *)

\* The weeks of the tables below.
ScoreWeeks == 1..2

\* Raw timings of a record: far below zero, at the "good" benchmark, a
\* minute past it, far in the slow tail and beyond where exp() overflows.
RawTimings ==
  [pick_time      |-> { -500, BENCHMARKS.pick_time.good, BENCHMARKS.pick_time.good + 1, 9000 },
   pack_time      |-> { BENCHMARKS.pack_time.good, BENCHMARKS.pack_time.good + 1 },
   dispatch_delay |-> { BENCHMARKS.dispatch_delay.good, 400 }]

ScoreRows ==
  { [week |-> w, pick_time |-> p, pack_time |-> k, dispatch_delay |-> d, error_count |-> 0] :
    w \in ScoreWeeks, p \in RawTimings.pick_time, k \in RawTimings.pack_time,
    d \in RawTimings.dispatch_delay }

\* The tables read at start-up: up to MaxRecords records, the weeks
\* non-decreasing.
ScoreTables ==
  { t \in SeqsUpTo(ScoreRows, MaxRecords) :
      Len(t) > 0 /\ \A i \in 1..(Len(t) - 1) : t[i].week <= t[i + 1].week }

InitScores ==
  /\ df \in ScoreTables
  /\ tiesAway \in BOOLEAN
  /\ call = [op |-> "none"]
  /\ result = [status |-> "none"]
  /\ memo = None
  /\ remembered = None

\* The caller keeps the WeekMetrics it was returned.
Keep == remembered' = Some(result.value)

NextScores ==
  \/ (\E week \in ScoreWeeks : CalculateWeekMetrics(week)) /\ UNCHANGED history
  \/ Respond /\ result.status = "returned" /\ Keep /\ UNCHANGED memo
  \/ Respond /\ UNCHANGED history

SpecScores == InitScores /\ [][NextScores]_vars

\* The sub-scores with the column and the benchmark each is computed from.
SubScores ==
  { [score |-> "picking_score",  col |-> "pick_time"],
    [score |-> "packing_score",  col |-> "pack_time"],
    [score |-> "dispatch_score", col |-> "dispatch_delay"] }

\* The mean raw value of a column over the records of a week of df, as the
\* pair <<sum, count>>.
RawMean(week, col) ==
  LET I == { i \in 1..Len(df) : df[i].week = week }
  IN  <<SumSeq([j \in 1..Len(SortedSeq(I)) |-> df[SortedSeq(I)[j]][col]]), Cardinality(I)>>

\* a <= b for two means <<sum, count>>.
MeanLeq(a, b) == a[1] * b[2] <= b[1] * a[2]

\* C13: every WeekMetrics returned by calculate_week_metrics has its four
\* scores in [0, 100] whatever the raw timings; a sub-score is 50 when the
\* week's mean raw value equals the metric's "good" benchmark, and of two
\* weeks the one with the greater mean raw value never has the greater
\* sub-score.
C13_ScoresBoundedMonotone ==
  (call.op = "calculate_week_metrics" /\ result.status = "returned") =>
    /\ \A f \in {"picking_score", "packing_score", "dispatch_score", "delivery_score"} :
         result.value[f] \in 0..10000
    /\ \A m \in SubScores :
         /\ RawMean(call.week, m.col)[1] = BENCHMARKS[m.col].good * RawMean(call.week, m.col)[2]
              => result.value[m.score] = 5000
         /\ remembered # None =>
              /\ MeanLeq(RawMean(remembered[1].week, m.col), RawMean(call.week, m.col))
                   => result.value[m.score] <= remembered[1][m.score]
              /\ MeanLeq(RawMean(call.week, m.col), RawMean(remembered[1].week, m.col))
                   => result.value[m.score] >= remembered[1][m.score]

\* A week of negative pick times was scored 100 for them and 50 for a
\* dispatch delay at its benchmark, and now a week whose pick time is far in
\* the overflow range scores 0 with the packing at its benchmark scoring 50
\* and a dispatch delay in the slow tail scoring 0.
C13_Witness ==
  /\ call.op = "calculate_week_metrics" /\ result.status = "returned"
  /\ remembered # None /\ remembered[1].week # call.week
  /\ remembered[1].picking_score = 10000
  /\ RawMean(call.week, "pick_time")[1] = 9000 * RawMean(call.week, "pick_time")[2]
  /\ result.value.picking_score = 0
  /\ result.value.packing_score = 5000
  /\ result.value.dispatch_score = 0
  /\ remembered[1].dispatch_score = 5000

(* ------------------------- the alerts of a call ------------------------ *)

\* The position of a metric in the order delivery_score, error_rate,
\* picking_score, packing_score, dispatch_score.
DeclaredPosition(metric) ==
  CASE metric = "delivery_score" -> 1
    [] metric = "error_rate"     -> 2
    [] metric = "picking_score"  -> 3
    [] metric = "packing_score"  -> 4
    [] metric = "dispatch_score" -> 5

\* The level a value of a metric calls for: a score is critical at or below
\* its critical threshold and warning at or below its warning threshold;
\* error_rate is critical from 1.5 up and warning from 0.8 up.
CalledFor(metric, value) ==
  IF metric = "error_rate"
  THEN IF 10 * value[1] >= 15 * value[2] THEN "critical"
       ELSE IF 10 * value[1] >= 8 * value[2] THEN "warning" ELSE "none"
  ELSE IF 100 * value[1] <= ALERT_THRESHOLDS[metric].critical * value[2] THEN "critical"
       ELSE IF 100 * value[1] <= ALERT_THRESHOLDS[metric].warning * value[2] THEN "warning"
       ELSE "none"

\* C14: _generate_alerts returns at most one alert per metric, in the order
\* delivery_score, error_rate, picking_score, packing_score, dispatch_score,
\* none for a metric absent from its input; a metric present has an alert
\* exactly at the level its value calls for, and every alert's threshold
\* field is the threshold of the level it was emitted at.
C14_AlertsOrderedAndLevelled ==
  call.op = "_generate_alerts" =>
    LET alerts == result.value
    IN  /\ \A i, j \in 1..Len(alerts) :
             i < j => DeclaredPosition(alerts[i].metric) < DeclaredPosition(alerts[j].metric)
        /\ \A i \in 1..Len(alerts) :
             /\ alerts[i].metric \in DOMAIN call.metrics
             /\ alerts[i].threshold = ALERT_THRESHOLDS[alerts[i].metric][alerts[i].level]
        /\ \A metric \in DOMAIN call.metrics :
             ReportedLevel(alerts, metric) = CalledFor(metric, call.metrics[metric])

\* A call without delivery_score whose error_rate is critical, picking_score
\* exactly at its warning threshold, packing_score healthy and dispatch_score
\* critical: three alerts, in order, each with the threshold of its level.
C14_Witness ==
  /\ call.op = "_generate_alerts"
  /\ DOMAIN call.metrics = AlertMetrics \ {"delivery_score"}
  /\ Len(result.value) = 3
  /\ result.value[1].metric = "error_rate" /\ result.value[1].level = "critical"
  /\ result.value[1].threshold = 150
  /\ result.value[2].metric = "picking_score" /\ result.value[2].level = "warning"
  /\ call.metrics["picking_score"] = <<5500, 100>>
  /\ result.value[2].threshold = 5500
  /\ result.value[3].metric = "dispatch_score" /\ result.value[3].level = "critical"
  /\ result.value[3].threshold = 3500

(* --------------------- what a scenario leaves alone ------------------- *)

\* The WeekMetrics of the week the scenario being answered is projected from.
BaseMetrics == calculate_week_metrics(call.week, df).value

\* C15: whatever the percentage and the elasticities, a scenario returned by
\* simulate_scenario for a present week has the base week's packing_score,
\* a delivery_score that is 0.4 * its picking_score + 0.3 * the base
\* packing_score + 0.3 * its dispatch_score rounded to 2 decimals, and a
\* delivery_delta that is its delivery_score minus the base delivery_score.
C15_PackingPassesThrough ==
  (call.op = "simulate_scenario" /\ result.status = "returned") =>
    LET scenario == result.value
        exact10  == 4 * scenario.picking_score + 3 * BaseMetrics.packing_score
                      + 3 * scenario.dispatch_score
    IN  /\ WeekPresent(call.week)
        /\ scenario.packing_score = BaseMetrics.packing_score
        /\ Abs(10 * scenario.delivery_score - exact10) <= 5
        /\ scenario.delivery_delta = scenario.delivery_score - BaseMetrics.delivery_score

\* A scenario of +100% orders at the default elasticities: picking and
\* dispatch were projected down, packing is the base week's, the weighted
\* sum needed rounding and the delta is negative.
C15_Witness ==
  /\ call.op = "simulate_scenario" /\ result.status = "returned"
  /\ call.order_increase_pct = 10000
  /\ call.picking_elasticity = 10 /\ call.dispatch_elasticity = 12
  /\ result.value.picking_score < BaseMetrics.picking_score
  /\ result.value.dispatch_score < BaseMetrics.dispatch_score
  /\ result.value.packing_score = BaseMetrics.packing_score
  /\ BaseMetrics.packing_score > 0
  /\ (4 * result.value.picking_score + 3 * BaseMetrics.packing_score
        + 3 * result.value.dispatch_score) % 10 # 0
  /\ result.value.delivery_delta < 0

(* ---------------------- forecasts over a history ---------------------- *)

\* Records whose pick_time is at its benchmark or a minute over it, whose
\* pack_time moves two minutes for each minute of pick_time and whose
\* dispatch_delay never moves.
HistoryRows ==
  { [week |-> w, pick_time |-> BENCHMARKS.pick_time.good + d,
     pack_time |-> BENCHMARKS.pack_time.good + 2 * d,
     dispatch_delay |-> BENCHMARKS.dispatch_delay.good, error_count |-> 0] :
    w \in Weeks, d \in { 0, 1 } }

\* The tables read at start-up: MaxWeek or MaxWeek + 1 records in any order
\* of their weeks.
HistoryTables ==
  { t \in SeqsUpTo(HistoryRows, MaxWeek + 1) : Len(t) >= MaxWeek }

InitHistory ==
  /\ df \in HistoryTables
  /\ tiesAway \in BOOLEAN
  /\ call = [op |-> "none"]
  /\ result = [status |-> "none"]
  /\ memo = None
  /\ remembered = None

NextHistory ==
  \/ (\E week \in Weeks : CalculateWeekMetrics(week)) /\ UNCHANGED history
  \/ Respond /\ UNCHANGED history

SpecHistory == InitHistory /\ [][NextHistory]_vars

\* The weeks of df up to the requested one.
WeeksUpTo(week) == { df[i].week : i \in { j \in 1..Len(df) : df[j].week <= week } }

\* The means of a column over each of these weeks, in ascending week order.
MeansUpTo(week, col) ==
  LET weeks == SortedSeq(WeeksUpTo(week))
  IN  [j \in 1..Len(weeks) |-> RawMean(weeks[j], col)]

\* The least-squares slope of a series of means against 0, 1, 2, ..., in
\* twelfths of a minute per week, as the rational <<num, den>> with den > 0.
FittedSlope(series) ==
  LET k   == Len(series)
      Sx  == SumSeq([i \in 1..k |-> i - 1])
      Sxx == SumSeq([i \in 1..k |-> (i - 1) * (i - 1)])
      Sy  == SumSeq([i \in 1..k |-> Twelfths(series[i])])
      Sxy == SumSeq([i \in 1..k |-> (i - 1) * Twelfths(series[i])])
  IN  <<k * Sxy - Sx * Sy, k * Sxx - Sx * Sx>>

\* The label of a slope for a metric whose lower values are better.
LowerIsBetterTrend(slope) ==
  IF Abs(slope[1]) <= 6 * slope[2] THEN "stable"
  ELSE IF slope[1] > 6 * slope[2] THEN "degrading" ELSE "improving"

\* C16: the forecasts of a WeekMetrics are those fitted on the per-week
\* means of the weeks <= the requested week in ascending week order (one
\* for each of pick_time, pack_time and dispatch_delay when there are 3 such
\* weeks or more, none otherwise), and the trend of each is "stable" if
\* |slope| <= 0.5, "degrading" if slope > 0.5 and "improving" if slope < -0.5.
C16_ForecastWindowAndTrend ==
  (call.op = "calculate_week_metrics" /\ result.status = "returned") =>
    LET forecasts == result.value.forecasts
        cols      == <<"pick_time", "pack_time", "dispatch_delay">>
    IN  IF Cardinality(WeeksUpTo(call.week)) < 3 THEN forecasts = <<>>
        ELSE /\ Len(forecasts) = Len(cols)
             /\ \A i \in 1..Len(cols) :
                  /\ forecasts[i] = _forecast_metric(MeansUpTo(call.week, cols[i]), cols[i])[1]
                  /\ forecasts[i].trend
                       = LowerIsBetterTrend(FittedSlope(MeansUpTo(call.week, cols[i])))

\* A table with its weeks out of order and two records in one week, asked
\* for its last week: pick_time rose by half a minute a week and is stable,
\* pack_time rose by a minute a week and is degrading.
C16_Witness ==
  /\ call.op = "calculate_week_metrics" /\ result.status = "returned"
  /\ call.week = MaxWeek
  /\ Len(df) = MaxWeek + 1
  /\ \E i \in 1..(Len(df) - 1) : df[i].week > df[i + 1].week
  /\ Len(result.value.forecasts) = 3
  /\ result.value.forecasts[1].trend = "stable"
  /\ result.value.forecasts[1].slope = 5000
  /\ result.value.forecasts[2].trend = "degrading"
  /\ result.value.forecasts[3].trend = "stable"

(* ------------------------------ stress test --------------------------- *)

\* The steps and the ceilings stress_test is called with, in hundredths of a
\* percent: 6.25 and 12.5.  They and their sums are binary fractions, which
\* floating point holds and adds exactly.
StepValues == { 625, 1250 }
MaxIncreaseValues == { 625, 1250 }

\* round(i, 1) of a percentage held exactly: to the nearest tenth of a
\* percent, a value midway between two tenths going to the even one.
RoundTenth(val) ==
  LET q == val \div 10
      r == val % 10
  IN  IF r < 5 THEN 10 * q
      ELSE IF r > 5 THEN 10 * (q + 1)
      ELSE IF q % 2 = 0 THEN 10 * q ELSE 10 * (q + 1)

\* simulation.py stress_test(week, step, max_increase, df) is entered: the
\* generator _frange(step, max_increase + step, step) starts at val = start
\* and the list of increments is empty.
StressTest(week, step, max_increase) ==
  /\ Idle
  /\ call' = [op |-> "stress_test", week |-> week, step |-> step,
              max_increase |-> max_increase, stop |-> max_increase + step,
              val |-> step, increments |-> <<>>]
  /\ result' = [status |-> "none"]
  /\ UNCHANGED <<df, tiesAway>>

\* One turn of the loop of _frange inside the comprehension of stress_test:
\* while val <= stop, val is yielded, rounded to 1 decimal into increments,
\* and step is added to it.
_frange ==
  /\ call.op = "stress_test"
  /\ result.status = "none"
  /\ call.val <= call.stop
  /\ Len(call.increments) < MaxYielded
  /\ call' = [call EXCEPT !.increments = Append(@, RoundTenth(call.val)),
                          !.val = @ + call.step]
  /\ UNCHANGED <<df, tiesAway, result>>

\* The generator is exhausted (val > stop): stress_test returns
\* simulate_load_range(week, increments, df).
StressDelegate ==
  /\ call.op = "stress_test"
  /\ result.status = "none"
  /\ call.val > call.stop
  /\ result' = simulate_load_range(call.week, call.increments, df)
  /\ UNCHANGED <<df, tiesAway, call>>

\* The outcome of stress_test is handed to the caller.
StressRespond == result.status # "none" /\ Respond

NextStress ==
  \/ (\E week \in Weeks, step \in StepValues, max_increase \in MaxIncreaseValues :
        StressTest(week, step, max_increase)) /\ UNCHANGED history
  \/ _frange /\ UNCHANGED history
  \/ StressDelegate /\ UNCHANGED history
  \/ StressRespond /\ UNCHANGED history

SpecStress == Init /\ [][NextStress]_vars

\* The multiples step, 2 * step, ... of the step that are <= max_increase +
\* step, in increasing order.
MultiplesOfStep ==
  [k \in 1..((call.max_increase + call.step) \div call.step) |-> k * call.step]

\* C17: for step > 0, stress_test hands simulate_load_range exactly the
\* percentages step, 2 * step, 3 * step, ... in increasing order: every
\* multiple k * step <= max_increase + step and no other value; the report
\* it returns holds one scenario for each of them.
C17_StressPercentagesAreMultiples ==
  (call.op = "stress_test" /\ call.step > 0 /\ result.status = "returned") =>
    /\ call.increments = MultiplesOfStep
    /\ [i \in 1..Len(result.value.scenarios) |-> result.value.scenarios[i].order_increase_pct]
         = MultiplesOfStep

(* ------------------------- anomaly severities ------------------------- *)

\* The anomalies of the report being answered that have a severity.
WithSeverity(level) ==
  { i \in 1..Len(result.value.anomalies) : result.value.anomalies[i].severity = level }

\* C18: the severity of every anomaly of a report follows from its
\* anomaly_score alone (below -0.15 critical, else below -0.05 high, else
\* moderate), and severity_breakdown has exactly the keys critical, high and
\* moderate, each counting the anomalies of that severity, the three counts
\* adding up to anomaly_count.
C18_SeverityFromScore ==
  (call.op = "detect_anomalies" /\ result.status = "returned") =>
    LET report == result.value
    IN  /\ \A i \in 1..Len(report.anomalies) :
             report.anomalies[i].severity
               = IF report.anomalies[i].anomaly_score < -150000 THEN "critical"
                 ELSE IF report.anomalies[i].anomaly_score < -50000 THEN "high"
                 ELSE "moderate"
        /\ DOMAIN report.severity_breakdown = {"critical", "high", "moderate"}
        /\ \A level \in DOMAIN report.severity_breakdown :
             report.severity_breakdown[level] = Cardinality(WithSeverity(level))
        /\ report.severity_breakdown["critical"] + report.severity_breakdown["high"]
             + report.severity_breakdown["moderate"] = report.anomaly_count

\* A report of three anomalies: one below -0.15, one whose score rounded to
\* -0.15 and is high, one at -0.05 and moderate.
C18_Witness ==
  /\ call.op = "detect_anomalies" /\ result.status = "returned"
  /\ result.value.anomaly_count = 3
  /\ result.value.anomalies[1].anomaly_score < -150000
  /\ result.value.anomalies[1].severity = "critical"
  /\ result.value.anomalies[2].anomaly_score = -150000
  /\ result.value.anomalies[2].severity = "high"
  /\ result.value.anomalies[3].anomaly_score = -50000
  /\ result.value.anomalies[3].severity = "moderate"
  /\ result.value.severity_breakdown = [critical |-> 1, high |-> 1, moderate |-> 1]

(* --------------------- root causes of small drops --------------------- *)

\* The weeks of the tables below.
DriftWeeks == 1..2

\* Timings of a record: at the "good" benchmarks with a dispatch delay far in
\* the slow tail, where a minute moves the score by 0.01; all three far in
\* the slow tail; and the "good" and the slow profile of Profiles.
DriftProfiles ==
  { <<20, 18, 82>>, <<20, 18, 83>>, <<88, 85, 82>>, <<87, 86, 83>>,
    <<20, 18, 15>>, <<36, 31, 26>> }

DriftRows ==
  { [week |-> w, pick_time |-> p[1], pack_time |-> p[2], dispatch_delay |-> p[3],
     error_count |-> 0] : w \in DriftWeeks, p \in DriftProfiles }

\* The tables read at start-up: up to MaxRecords records, the weeks
\* non-decreasing.
DriftTables ==
  { t \in SeqsUpTo(DriftRows, MaxRecords) :
      Len(t) > 0 /\ \A i \in 1..(Len(t) - 1) : t[i].week <= t[i + 1].week }

InitRootCause ==
  /\ df \in DriftTables
  /\ tiesAway \in BOOLEAN
  /\ call = [op |-> "none"]
  /\ result = [status |-> "none"]
  /\ memo = None
  /\ remembered = None

NextRootCause ==
  \/ (\E current_week, previous_week \in DriftWeeks :
        RootCauseAnalysis(current_week, previous_week)) /\ UNCHANGED history
  \/ Respond /\ UNCHANGED history

SpecRootCause == InitRootCause /\ [][NextRootCause]_vars

\* The ImpactFactor of the report being answered for the metric it names as
\* main_driver.
MainDriver ==
  result.value.drivers[CHOOSE i \in 1..Len(result.value.drivers) :
                         result.value.drivers[i].metric = result.value.main_driver]

\* C19: whenever root_cause_analysis reports total_drop > 0, the main_driver
\* of the report, which the verdict names too, is a sub-metric whose score
\* decreased from the previous week to the current one: its direction is
\* "degrading" and its change is negative.
C19_MainDriverDegraded ==
  (call.op = "root_cause_analysis" /\ result.status = "returned"
     /\ result.value.total_drop > 0) =>
    /\ CurrentMetrics[result.value.main_driver] < PreviousMetrics[result.value.main_driver]
    /\ MainDriver.direction = "degrading"
    /\ MainDriver.change < 0
    /\ result.value.verdict.metric_label = result.value.main_driver

(* ------------------------ a week of many records ---------------------- *)

\* The records of a week, and the errors counted in them together: 35 in 44
\* is an error rate of 0.7954..., 36 in 44 of 0.8181... and 66 in 44 of 1.5.
BatchSize == 44
ErrorTotals == { 0, 35, 36, 66 }

\* A week of BatchSize records with the timings of a profile, the errors
\* spread over the records as evenly as they go.
BatchTable(week, profile, errors) ==
  [i \in 1..BatchSize |->
     [week |-> week, pick_time |-> profile.pick_time, pack_time |-> profile.pack_time,
      dispatch_delay |-> profile.dispatch_delay,
      error_count |-> errors \div BatchSize + (IF i <= errors % BatchSize THEN 1 ELSE 0)]]

BatchTables ==
  { BatchTable(w, p, e) : w \in Weeks, p \in Profiles, e \in ErrorTotals }

InitBatch ==
  /\ df \in BatchTables
  /\ tiesAway \in BOOLEAN
  /\ call = [op |-> "none"]
  /\ result = [status |-> "none"]
  /\ memo = None
  /\ remembered = None

NextBatch ==
  \/ (\E week \in Weeks : CalculateWeekMetrics(week)) /\ UNCHANGED history
  \/ Respond /\ UNCHANGED history

SpecBatch == InitBatch /\ [][NextBatch]_vars

\* The four scores among the monitored metrics.
MonitoredScores == AlertMetrics \ {"error_rate"}

\* The scores of the WeekMetrics being answered have the alert level that
\* the thresholds give their reported values.
ScoreAlertsAgree ==
  \A metric \in MonitoredScores :
    ReportedLevel(result.value.alerts, metric)
      = CalledFor(metric, <<result.value[metric], 100>>)

LoadPcts == { 0, 2500, 5000, 10000 }

\* The lists simulate_load_range is called with: up to MaxIncrements + 1
\* percentages in ascending order.
AscendingLists ==
  { l \in SeqsUpTo(LoadPcts, MaxIncrements + 1) : \A i \in 1..(Len(l) - 1) : l[i] < l[i + 1] }

NextLoad ==
  \/ (\E week \in Weeks, increments \in AscendingLists :
        SimulateLoadRange(week, increments)) /\ UNCHANGED history
  \/ Respond /\ UNCHANGED history

SpecLoad == Init /\ [][NextLoad]_vars

\* The positions of the scenarios of the report being answered that are at
\* or after its breaking point: none when it has no breaking point.
AtOrAfterBreaking ==
  LET scenarios == result.value.scenarios
      breaking  == result.value.breaking_point_pct
  IN  IF breaking = None THEN {}
      ELSE { i \in 1..Len(scenarios) : scenarios[i].order_increase_pct >= breaking[1] }

\* C21: for a present week and the default elasticities the simulated
\* delivery_score does not increase as order_increase_pct grows from 0 up;
\* so in a report over percentages in ascending order every scenario at or
\* after the breaking point has delivery_score < 40 and risk_level
\* "critical", and every scenario before it has delivery_score >= 40.
C21_LoadNeverHelps ==
  (call.op = "simulate_load_range" /\ result.status = "returned") =>
    LET scenarios == result.value.scenarios
    IN  /\ \A i, j \in 1..Len(scenarios) :
             scenarios[i].order_increase_pct <= scenarios[j].order_increase_pct
               => scenarios[i].delivery_score >= scenarios[j].delivery_score
        /\ \A i \in 1..Len(scenarios) :
             IF i \in AtOrAfterBreaking
             THEN scenarios[i].delivery_score < 4000 /\ scenarios[i].risk_level = "critical"
             ELSE scenarios[i].delivery_score >= 4000

\* A report over +25%, +50% and +100%: the first scenario holds above 40,
\* the second is the breaking point, between 35 and 40, and the third lower
\* still.
C21_Witness ==
  /\ call.op = "simulate_load_range" /\ result.status = "returned"
  /\ call.increments = <<2500, 5000, 10000>>
  /\ result.value.breaking_point_pct = Some(5000)
  /\ result.value.scenarios[1].delivery_score >= 4000
  /\ result.value.scenarios[2].delivery_score \in 3500..3999
  /\ result.value.scenarios[2].risk_level = "critical"
  /\ result.value.scenarios[3].delivery_score < result.value.scenarios[2].delivery_score

(* ----------------------- stress test, any step ------------------------ *)

\* Steps and ceilings of any sign, in hundredths of a percent.
AnyStepValues == { -625, 0, 625 }
AnyMaxIncreaseValues == { -1250, 625 }

\* The loop of _frange still holds (val <= stop) and the list cannot grow
\* any further: the append inside the comprehension raises MemoryError,
\* which stress_test does not catch.
StressExhausted ==
  /\ call.op = "stress_test"
  /\ result.status = "none"
  /\ call.val <= call.stop
  /\ Len(call.increments) = MaxYielded
  /\ result' = Raised("MemoryError", <<>>)
  /\ UNCHANGED <<df, tiesAway, call>>

NextStressAny ==
  \/ (\E week \in Weeks, step \in AnyStepValues, max_increase \in AnyMaxIncreaseValues :
        StressTest(week, step, max_increase)) /\ UNCHANGED history
  \/ _frange /\ UNCHANGED history
  \/ StressExhausted /\ UNCHANGED history
  \/ StressDelegate /\ UNCHANGED history
  \/ StressRespond /\ UNCHANGED history

SpecStressAny == Init /\ [][NextStressAny]_vars

\* C22: for a present week and any numeric step and max_increase, zero and
\* negative steps included, stress_test builds a finite list of percentages
\* and ends by returning a report: it never ends any other way.
C22_StressReturnsReport ==
  (call.op = "stress_test" /\ WeekPresent(call.week) /\ result.status # "none") =>
    result.status = "returned"

====
